---- MODULE Spec2Model ----
(***************************************************************************)
(* Satori: scanner, recursive-descent parser, single-pass bytecode         *)
(* compiler and stack VM with its module registry.                         *)
(*                                                                         *)
(* Text is a sequence of one-character strings; the C string terminator is *)
(* the value NUL.  Addresses into the chunk and indices into the source    *)
(* are 0-based as in the C code (code[a + 1] is the byte at address a).    *)
(* Token line/column (diagnostics only) are not modelled.                  *)
(***************************************************************************)
EXTENDS Integers, Sequences, FiniteSets, TLC

VARIABLES
  mode,            \* the driver: "tokens", "ast", "run" (main.c), "codegen"
                   \* (codegen_compile on a built AST), "module" (module_load),
                   \* "bytecode" (vm_run on a written chunk), "jump" (the
                   \* compiler about to close a forward jump or a loop),
                   \* "table" (table.c called on one Table)
  phase,           \* position of the driver
  source,          \* the source buffer (without its terminating NUL)
  lexer,           \* Lexer: [start, current]
  tokens,          \* tokens printed so far by dump_tokens
  program,         \* AstNode * returned by parser_parse (NULL_NODE when none)
  vm,              \* VM: [code, constants, ip, stack, locals, local_count,
                   \* globals, loaded_modules]; stack holds the stack_top live
                   \* values, DOMAIN locals is the set of slots written so far
  out,             \* characters written to stdout
  diag,            \* the last diagnostic written to stderr
  exit_code,       \* process exit status (-1 while running)
  visits,          \* visits[a]: times the instruction at address a was dispatched
  init_calls,      \* init_calls[m]: times the initializer of module m has run
  load_calls,      \* load_calls[m]: module_load calls made so far that name m
  steps,           \* instructions dispatched / library calls made
  compiler,        \* Compiler: [code, constants, locals, had_error, message]
  tab,             \* Table: [count, capacity, entries]
  call             \* the library call pending or last made: [fn, ...]

\* the state of the library objects driven directly
unit == <<compiler, tab, call>>

vars == <<mode, phase, source, lexer, tokens, program, vm, out, diag,
          exit_code, visits, init_calls, load_calls, steps, compiler, tab,
          call>>

-----------------------------------------------------------------------------
(* Characters *)

NUL == "NUL"

Digit == {"0", "1", "2", "3", "4", "5", "6", "7", "8", "9"}

Lower == {"a", "b", "c", "d", "e", "f", "g", "h", "i", "j", "k", "l", "m",
          "n", "o", "p", "q", "r", "s", "t", "u", "v", "w", "x", "y", "z"}

Upper == {"A", "B", "C", "D", "E", "F", "G", "H", "I", "J", "K", "L", "M",
          "N", "O", "P", "Q", "R", "S", "T", "U", "V", "W", "X", "Y", "Z"}

is_digit(c) == c \in Digit

is_alpha(c) == c \in Lower \cup Upper \cup {"_"}

\* *(src + i): the byte at 0-based index i of the NUL-terminated buffer
CharAt(src, i) == IF i >= 0 /\ i < Len(src) THEN src[i + 1] ELSE NUL

\* the bytes [from, from + n) of the buffer
Slice(src, from, n) == [k \in 1..n |-> CharAt(src, from + k - 1)]

-----------------------------------------------------------------------------
(* Scanner (lexer.c) *)

lexer_init == [start |-> 0, current |-> 0]

peek(src, cur) == CharAt(src, cur)

is_at_end(src, cur) == CharAt(src, cur) = NUL

peek_next(src, cur) == IF is_at_end(src, cur) THEN NUL ELSE CharAt(src, cur + 1)

make_token(type, start, cur) ==
  [type |-> type, start |-> start, length |-> cur - start]

\* the token points at the message, not into the source (start = -1 here)
error_token(message) ==
  [type |-> "TOKEN_ERROR", start |-> -1, length |-> Len(message)]

MsgUnterminated ==
  <<"U","n","t","e","r","m","i","n","a","t","e","d"," ","s","t","r","i","n","g">>

MsgUnexpected ==
  <<"U","n","e","x","p","e","c","t","e","d"," ","c","h","a","r","a","c","t","e","r">>

\* the comment loop of skip_whitespace: advance to the newline or the end
RECURSIVE SkipComment(_, _)
SkipComment(src, cur) ==
  IF peek(src, cur) # "\n" /\ ~is_at_end(src, cur)
  THEN SkipComment(src, cur + 1)
  ELSE cur

RECURSIVE skip_whitespace(_, _)
skip_whitespace(src, cur) ==
  LET c == peek(src, cur) IN
  IF c \in {" ", "\r", "\t"} THEN skip_whitespace(src, cur + 1)
  ELSE IF c = "/" /\ peek_next(src, cur) = "/"
       THEN skip_whitespace(src, SkipComment(src, cur))
       ELSE cur

\* string(): cur is just past the opening quote; result [tok, current]
RECURSIVE ScanString(_, _, _)
ScanString(src, start, cur) ==
  IF peek(src, cur) # "\"" /\ ~is_at_end(src, cur)
  THEN ScanString(src, start, cur + 1)
  ELSE IF is_at_end(src, cur)
       THEN [tok |-> error_token(MsgUnterminated), current |-> cur]
       ELSE [tok |-> make_token("TOKEN_STRING", start, cur + 1),
             current |-> cur + 1]

RECURSIVE SkipDigits(_, _)
SkipDigits(src, cur) ==
  IF is_digit(peek(src, cur)) THEN SkipDigits(src, cur + 1) ELSE cur

\* the token [start, cur) of the given type, the scanner left at cur
OneChar(start, cur, type) ==
  [tok |-> make_token(type, start, cur), current |-> cur]

\* number() after its first run of digits
Fraction(src, start, cur) ==
  IF peek(src, cur) = "." /\ is_digit(peek_next(src, cur))
  THEN OneChar(start, SkipDigits(src, cur + 1), "TOKEN_FLOAT")
  ELSE OneChar(start, cur, "TOKEN_INT")

number(src, start, cur) == Fraction(src, start, SkipDigits(src, cur))

\* memcmp(start, rest, length) == 0 ? type : TOKEN_IDENTIFIER.  `rest` is a
\* string literal: rest[Len(rest)] is its NUL, which no identifier byte
\* equals, so any comparison reaching that index (or beyond) is nonzero.
check_keyword(src, start, length, rest, type) ==
  IF \A i \in 0..(length - 1) :
        i < Len(rest) /\ CharAt(src, start + i) = rest[i + 1]
  THEN type
  ELSE "TOKEN_IDENTIFIER"

identifier_type(src, start, cur) ==
  LET length == cur - start
      s0 == CharAt(src, start)
      s1 == CharAt(src, start + 1)
      s2 == CharAt(src, start + 2)
      s3 == CharAt(src, start + 3)
      ID == "TOKEN_IDENTIFIER"
  IN
  CASE s0 = "a" -> check_keyword(src, start + 1, length - 1, <<"n","d">>, "TOKEN_AND")
    [] s0 = "b" ->
         IF length > 1
         THEN CASE s1 = "o" -> check_keyword(src, start + 2, length - 2, <<"o","l">>, "TOKEN_TYPE_BOOL")
                [] s1 = "r" -> check_keyword(src, start + 2, length - 2, <<"e","a","k">>, "TOKEN_BREAK")
                [] s1 = "y" -> check_keyword(src, start + 2, length - 2, <<"t","e">>, "TOKEN_TYPE_BYTE")
                [] OTHER -> ID
         ELSE ID
    [] s0 = "c" -> check_keyword(src, start + 1, length - 1, <<"o","n","t","i","n","u","e">>, "TOKEN_CONTINUE")
    [] s0 = "d" -> check_keyword(src, start + 1, length - 1, <<"e","f","e","r">>, "TOKEN_DEFER")
    [] s0 = "e" -> check_keyword(src, start + 1, length - 1, <<"l","s","e">>, "TOKEN_ELSE")
    [] s0 = "f" ->
         IF length > 1
         THEN CASE s1 = "a" -> check_keyword(src, start + 2, length - 2, <<"l","s","e">>, "TOKEN_FALSE")
                [] s1 = "l" -> check_keyword(src, start + 2, length - 2, <<"o","a","t">>, "TOKEN_TYPE_FLOAT")
                [] s1 = "o" -> check_keyword(src, start + 2, length - 2, <<"r">>, "TOKEN_FOR")
                [] OTHER -> ID
         ELSE ID
    [] s0 = "i" ->
         IF length > 1
         THEN CASE s1 = "f" -> IF length = 2 THEN "TOKEN_IF" ELSE ID
                [] s1 = "m" -> check_keyword(src, start + 2, length - 2, <<"p","o","r","t">>, "TOKEN_IMPORT")
                [] s1 = "n" -> IF length = 2 THEN "TOKEN_IN"
                               ELSE check_keyword(src, start + 2, length - 2, <<"t">>, "TOKEN_TYPE_INT")
                [] OTHER -> ID
         ELSE ID
    [] s0 = "l" ->
         IF length > 1
         THEN CASE s1 = "e" -> check_keyword(src, start + 2, length - 2, <<"t">>, "TOKEN_LET")
                [] s1 = "o" -> check_keyword(src, start + 2, length - 2, <<"o","p">>, "TOKEN_LOOP")
                [] OTHER -> ID
         ELSE ID
    [] s0 = "n" ->
         IF length > 1
         THEN CASE s1 = "i" -> check_keyword(src, start + 2, length - 2, <<"l">>, "TOKEN_NIL")
                [] s1 = "o" -> check_keyword(src, start + 2, length - 2, <<"t">>, "TOKEN_NOT")
                [] OTHER -> ID
         ELSE ID
    [] s0 = "o" -> check_keyword(src, start + 1, length - 1, <<"r">>, "TOKEN_OR")
    [] s0 = "p" -> check_keyword(src, start + 1, length - 1, <<"a","n","i","c">>, "TOKEN_PANIC")
    [] s0 = "r" -> check_keyword(src, start + 1, length - 1, <<"e","t","u","r","n">>, "TOKEN_RETURN")
    [] s0 = "s" ->
         IF length > 1
         THEN CASE s1 = "p" ->
                     IF length > 2 /\ s2 = "a"
                     THEN check_keyword(src, start + 3, length - 3, <<"w","n">>, "TOKEN_SPAWN")
                     ELSE ID
                [] s1 = "t" ->
                     IF length > 2 /\ s2 = "r"
                     THEN IF length > 3 /\ s3 = "i"
                          THEN check_keyword(src, start + 4, length - 4, <<"n","g">>, "TOKEN_TYPE_STRING")
                          ELSE check_keyword(src, start + 3, length - 3, <<"u","c","t">>, "TOKEN_STRUCT")
                     ELSE ID
                [] OTHER -> ID
         ELSE ID
    [] s0 = "t" ->
         IF length > 1
         THEN CASE s1 = "h" -> check_keyword(src, start + 2, length - 2, <<"e","n">>, "TOKEN_THEN")
                [] s1 = "r" -> check_keyword(src, start + 2, length - 2, <<"u","e">>, "TOKEN_TRUE")
                [] OTHER -> ID
         ELSE ID
    [] s0 = "v" -> check_keyword(src, start + 1, length - 1, <<"o","i","d">>, "TOKEN_TYPE_VOID")
    [] s0 = "w" -> check_keyword(src, start + 1, length - 1, <<"h","i","l","e">>, "TOKEN_WHILE")
    [] OTHER -> ID

\* identifier(): cur is just past the first character
RECURSIVE SkipIdent(_, _)
SkipIdent(src, cur) ==
  IF is_alpha(peek(src, cur)) \/ is_digit(peek(src, cur))
  THEN SkipIdent(src, cur + 1)
  ELSE cur

\* make_token(lexer, identifier_type(lexer)) at the end of the identifier
IdentifierToken(src, start, cur) ==
  OneChar(start, cur, identifier_type(src, start, cur))

identifier(src, start, cur) == IdentifierToken(src, start, SkipIdent(src, cur))

\* match(lexer, expected) folded into the two-character operators
TwoChar(src, start, cur, expected, two, one) ==
  IF ~is_at_end(src, cur) /\ CharAt(src, cur) = expected
  THEN [tok |-> make_token(two, start, cur + 1), current |-> cur + 1]
  ELSE [tok |-> make_token(one, start, cur), current |-> cur]

\* the switch of lexer_next_token: lexer->start is start, c the character
\* advance() returned and cur the position after it
ScanToken(src, start, c, cur) ==
  IF is_at_end(src, start) THEN OneChar(start, start, "TOKEN_EOF")
  ELSE IF is_alpha(c) THEN identifier(src, start, cur)
  ELSE IF is_digit(c) THEN number(src, start, cur)
  ELSE
  CASE c = "(" -> OneChar(start, cur, "TOKEN_LEFT_PAREN")
    [] c = ")" -> OneChar(start, cur, "TOKEN_RIGHT_PAREN")
    [] c = "{" -> OneChar(start, cur, "TOKEN_LEFT_BRACE")
    [] c = "}" -> OneChar(start, cur, "TOKEN_RIGHT_BRACE")
    [] c = "[" -> OneChar(start, cur, "TOKEN_LEFT_BRACKET")
    [] c = "]" -> OneChar(start, cur, "TOKEN_RIGHT_BRACKET")
    [] c = "," -> OneChar(start, cur, "TOKEN_COMMA")
    [] c = "." -> TwoChar(src, start, cur, ".", "TOKEN_DOT_DOT", "TOKEN_DOT")
    [] c = ":" -> TwoChar(src, start, cur, "=", "TOKEN_COLON_EQUAL", "TOKEN_COLON")
    [] c = ";" -> OneChar(start, cur, "TOKEN_SEMICOLON")
    [] c = "+" -> TwoChar(src, start, cur, "=", "TOKEN_PLUS_EQUAL", "TOKEN_PLUS")
    [] c = "-" -> TwoChar(src, start, cur, "=", "TOKEN_MINUS_EQUAL", "TOKEN_MINUS")
    [] c = "*" -> TwoChar(src, start, cur, "=", "TOKEN_STAR_EQUAL", "TOKEN_STAR")
    [] c = "/" -> TwoChar(src, start, cur, "=", "TOKEN_SLASH_EQUAL", "TOKEN_SLASH")
    [] c = "%" -> OneChar(start, cur, "TOKEN_PERCENT")
    [] c = "&" -> OneChar(start, cur, "TOKEN_AMPERSAND")
    [] c = "|" -> OneChar(start, cur, "TOKEN_PIPE")
    [] c = "^" -> OneChar(start, cur, "TOKEN_CARET")
    [] c = "!" -> TwoChar(src, start, cur, "=", "TOKEN_BANG_EQUAL", "TOKEN_BANG")
    [] c = "=" -> TwoChar(src, start, cur, "=", "TOKEN_EQUAL_EQUAL", "TOKEN_EQUAL")
    [] c = "<" -> TwoChar(src, start, cur, "=", "TOKEN_LESS_EQUAL", "TOKEN_LESS")
    [] c = ">" -> TwoChar(src, start, cur, "=", "TOKEN_GREATER_EQUAL", "TOKEN_GREATER")
    [] c = "\"" -> ScanString(src, start, cur)
    [] c = "\n" -> OneChar(start, cur, "TOKEN_NEWLINE")
    [] OTHER -> [tok |-> error_token(MsgUnexpected), current |-> cur]

\* the token and the lexer it leaves behind
Scanned(start, r) ==
  [tok |-> r.tok, lexer |-> [start |-> start, current |-> r.current]]

\* lexer->start = lexer->current after skip_whitespace
StartToken(src, start) ==
  Scanned(start, ScanToken(src, start, CharAt(src, start), start + 1))

\* lexer_next_token: [tok |-> Token, lexer |-> Lexer afterwards]
lexer_next_token(src, lx) == StartToken(src, skip_whitespace(src, lx.current))
-----------------------------------------------------------------------------
(* AST (ast.h / ast.c); NULL_NODE is the C NULL pointer *)

NULL_NODE == [type |-> "NULL"]

ast_make_program(stmts) == [type |-> "AST_PROGRAM", statements |-> stmts]
ast_make_import(name) == [type |-> "AST_IMPORT", module_name |-> name]
ast_make_let(name, value) == [type |-> "AST_LET", name |-> name, value |-> value]
ast_make_assignment(name, value) ==
  [type |-> "AST_ASSIGNMENT", name |-> name, value |-> value]
ast_make_binary_op(op, left, right) ==
  [type |-> "AST_BINARY_OP", op |-> op, left |-> left, right |-> right]
ast_make_unary_op(op, operand) ==
  [type |-> "AST_UNARY_OP", op |-> op, operand |-> operand]
ast_make_if(c, t, e) ==
  [type |-> "AST_IF", condition |-> c, then_branch |-> t, else_branch |-> e]
ast_make_while(c, body) == [type |-> "AST_WHILE", condition |-> c, body |-> body]
ast_make_loop(body) == [type |-> "AST_LOOP", body |-> body]
ast_make_break == [type |-> "AST_BREAK"]
ast_make_continue == [type |-> "AST_CONTINUE"]
ast_make_block(stmts) == [type |-> "AST_BLOCK", statements |-> stmts]
ast_make_call(callee, args) == [type |-> "AST_CALL", callee |-> callee, args |-> args]
ast_make_member_access(object, member) ==
  [type |-> "AST_MEMBER_ACCESS", object |-> object, member |-> member]
ast_make_identifier(name) == [type |-> "AST_IDENTIFIER", name |-> name]
ast_make_string_literal(value) == [type |-> "AST_STRING_LITERAL", value |-> value]
ast_make_int_literal(value) == [type |-> "AST_INT_LITERAL", value |-> value]
ast_make_float_literal(value) == [type |-> "AST_FLOAT_LITERAL", value |-> value]

-----------------------------------------------------------------------------
(* Numbers.  i64 values are kept exact (the inputs stay far from 2^63); an   *)
(* f64 is the exact rational [num, den] in lowest terms, den > 0.            *)

RECURSIVE Gcd(_, _)
Gcd(a, b) == IF b = 0 THEN a ELSE Gcd(b, a % b)

Abs(x) == IF x < 0 THEN -x ELSE x

Rat(n, d) ==
  LET g == Gcd(Abs(n), Abs(d))
      sgn == IF d < 0 THEN -1 ELSE 1
  IN [num |-> sgn * (n \div g), den |-> sgn * (d \div g)]

DigitVal(c) == CHOOSE v \in 0..9 : <<"0","1","2","3","4","5","6","7","8","9">>[v + 1] = c

\* atoll on a run of digits
RECURSIVE atoll(_)
atoll(str) ==
  IF Len(str) = 0 \/ ~is_digit(str[Len(str)]) THEN 0
  ELSE 10 * atoll(SubSeq(str, 1, Len(str) - 1)) + DigitVal(str[Len(str)])

RECURSIVE Pow10(_)
Pow10(n) == IF n = 0 THEN 1 ELSE 10 * Pow10(n - 1)

\* atof on digits "." digits (the only float spelling the scanner produces)
atof(str) ==
  LET dot == CHOOSE i \in 1..Len(str) : str[i] = "."
      ip == SubSeq(str, 1, dot - 1)
      fp == SubSeq(str, dot + 1, Len(str))
  IN Rat(atoll(ip) * Pow10(Len(fp)) + atoll(fp), Pow10(Len(fp)))

-----------------------------------------------------------------------------
(* Parser (parser.c).  A Parser is [lexer, current, previous, had_error,   *)
(* hang]; parse functions return [p |-> Parser, node |-> AstNode].  hang   *)
(* records that parse_call has entered its unbounded recursion: nothing    *)
(* after that point is executed by the C code.                             *)

NoToken == [type |-> "NONE", start |-> 0, length |-> 0]

token_to_string(src, token) == Slice(src, token.start, token.length)

\* the for(;;) of advance(): next non-error token, had_error set on errors
RECURSIVE AdvanceLoop(_, _, _)
AdvanceLoop(src, r, err) ==
  IF r.tok.type # "TOKEN_ERROR"
  THEN [lexer |-> r.lexer, tok |-> r.tok, err |-> err]
  ELSE AdvanceLoop(src, lexer_next_token(src, r.lexer), TRUE)

\* p->previous = p->current; p->current = the token the loop stopped at
Advanced(p, r) ==
  [p EXCEPT !.previous = p.current, !.current = r.tok, !.lexer = r.lexer,
            !.had_error = r.err]

advance(src, p) ==
  Advanced(p, AdvanceLoop(src, lexer_next_token(src, p.lexer), p.had_error))

RECURSIVE skip_newlines(_, _)
skip_newlines(src, p) ==
  IF p.current.type = "TOKEN_NEWLINE" THEN skip_newlines(src, advance(src, p))
  ELSE p

check(p, type) == p.current.type = type

\* match is check followed by advance: Match tests, the caller advances
consume(src, p, type) ==
  IF p.current.type = type THEN advance(src, p)
  ELSE [p EXCEPT !.had_error = TRUE]

ArgStart == {"TOKEN_STRING", "TOKEN_INT", "TOKEN_FLOAT", "TOKEN_IDENTIFIER",
             "TOKEN_MINUS", "TOKEN_BANG", "TOKEN_LEFT_PAREN"}

\* the tokens parse_unary or parse_primary consume
ExprStart == {"TOKEN_STRING", "TOKEN_INT", "TOKEN_FLOAT", "TOKEN_IDENTIFIER",
              "TOKEN_MINUS", "TOKEN_BANG"}

EqualityOp(t) == IF t = "TOKEN_EQUAL_EQUAL" THEN "BIN_EQ" ELSE "BIN_NEQ"

ComparisonOp(t) ==
  CASE t = "TOKEN_LESS" -> "BIN_LT"
    [] t = "TOKEN_LESS_EQUAL" -> "BIN_LTE"
    [] t = "TOKEN_GREATER" -> "BIN_GT"
    [] t = "TOKEN_GREATER_EQUAL" -> "BIN_GTE"
    [] OTHER -> "BIN_LT"

TermOp(t) == IF t = "TOKEN_PLUS" THEN "BIN_ADD" ELSE "BIN_SUB"

FactorOp(t) ==
  CASE t = "TOKEN_STAR" -> "BIN_MUL"
    [] t = "TOKEN_SLASH" -> "BIN_DIV"
    [] t = "TOKEN_PERCENT" -> "BIN_MOD"
    [] OTHER -> "BIN_MUL"

UnaryOp(t) == IF t = "TOKEN_MINUS" THEN "UNARY_NEG" ELSE "UNARY_NOT"

\* a parse function's result: the parser after it and the node it built
Result(p, node) == [p |-> p, node |-> node]

\* expr = ast_make_binary_op(op, expr, right) once right is parsed
BinaryOn(op, expr, right) ==
  Result(right.p, ast_make_binary_op(op, expr, right.node))

RECURSIVE parse_equality(_, _), EqualityLoop(_, _),
          parse_comparison(_, _), ComparisonLoop(_, _),
          parse_term(_, _), TermLoop(_, _),
          parse_factor(_, _), FactorLoop(_, _),
          parse_unary(_, _), parse_call(_, _), CallLoop(_, _),
          ArgsLoop(_, _), parse_statement(_, _)

parse_expression(src, p) == parse_equality(src, p)

\* the while (match(...)) loops below take the result so far; the operator
\* is the token advance() moves to previous
EqualityLoop(src, r) ==
  IF check(r.p, "TOKEN_EQUAL_EQUAL") \/ check(r.p, "TOKEN_BANG_EQUAL")
  THEN EqualityLoop(src,
         BinaryOn(EqualityOp(r.p.current.type), r.node,
                  parse_comparison(src, advance(src, r.p))))
  ELSE r

parse_equality(src, p) == EqualityLoop(src, parse_comparison(src, p))

ComparisonLoop(src, r) ==
  IF check(r.p, "TOKEN_LESS") \/ check(r.p, "TOKEN_LESS_EQUAL")
     \/ check(r.p, "TOKEN_GREATER") \/ check(r.p, "TOKEN_GREATER_EQUAL")
  THEN ComparisonLoop(src,
         BinaryOn(ComparisonOp(r.p.current.type), r.node,
                  parse_term(src, advance(src, r.p))))
  ELSE r

parse_comparison(src, p) == ComparisonLoop(src, parse_term(src, p))

TermLoop(src, r) ==
  IF check(r.p, "TOKEN_PLUS") \/ check(r.p, "TOKEN_MINUS")
  THEN TermLoop(src,
         BinaryOn(TermOp(r.p.current.type), r.node,
                  parse_factor(src, advance(src, r.p))))
  ELSE r

parse_term(src, p) == TermLoop(src, parse_factor(src, p))

FactorLoop(src, r) ==
  IF check(r.p, "TOKEN_STAR") \/ check(r.p, "TOKEN_SLASH")
     \/ check(r.p, "TOKEN_PERCENT")
  THEN FactorLoop(src,
         BinaryOn(FactorOp(r.p.current.type), r.node,
                  parse_unary(src, advance(src, r.p))))
  ELSE r

parse_factor(src, p) == FactorLoop(src, parse_unary(src, p))

\* ast_make_unary_op(op, right) once right is parsed
UnaryOn(op, right) == Result(right.p, ast_make_unary_op(op, right.node))

parse_unary(src, p) ==
  IF check(p, "TOKEN_MINUS") \/ check(p, "TOKEN_BANG")
  THEN UnaryOn(UnaryOp(p.current.type), parse_unary(src, advance(src, p)))
  ELSE parse_call(src, p)

\* the node parse_primary builds from the literal or identifier it matched
PrimaryNode(src, token) ==
  CASE token.type = "TOKEN_STRING" ->
         ast_make_string_literal(Slice(src, token.start + 1, token.length - 2))
    [] token.type = "TOKEN_INT" ->
         ast_make_int_literal(atoll(token_to_string(src, token)))
    [] token.type = "TOKEN_FLOAT" ->
         ast_make_float_literal(atof(token_to_string(src, token)))
    [] OTHER -> ast_make_identifier(token_to_string(src, token))

parse_primary(src, p) ==
  IF p.current.type \in {"TOKEN_STRING", "TOKEN_INT", "TOKEN_FLOAT",
                         "TOKEN_IDENTIFIER"}
  THEN Result(advance(src, p), PrimaryNode(src, p.current))
  ELSE Result([p EXCEPT !.had_error = TRUE], NULL_NODE)

\* expr = ast_make_member_access(expr, member) after the consume
MemberOn(src, expr, p) ==
  Result(p, ast_make_member_access(expr, token_to_string(src, p.previous)))

\* args[arg_count++] = parse_expression(p)
FirstArg(r) == [p |-> r.p, args |-> <<r.node>>]

NextArg(args, r) == [p |-> r.p, args |-> Append(args, r.node)]

\* expr = ast_make_call(expr, args, arg_count)
CallOn(expr, a) == Result(a.p, ast_make_call(expr, a.args))

\* the comma loop of parse_call
ArgsLoop(src, a) ==
  IF check(a.p, "TOKEN_COMMA")
  THEN ArgsLoop(src, NextArg(a.args, parse_expression(src, advance(src, a.p))))
  ELSE a

\* the while (true) of parse_call.  When the call branch is entered on a
\* token that neither parse_unary nor parse_primary consumes (a left
\* parenthesis), the argument's parse_expression comes back to this branch
\* of a nested parse_call with the same lexer position and the same token:
\* the recursion never returns (hang) and no call node is ever built.
CallLoop(src, r) ==
  IF r.p.hang THEN r
  ELSE IF check(r.p, "TOKEN_DOT")
  THEN CallLoop(src,
         MemberOn(src, r.node,
                  consume(src, advance(src, r.p), "TOKEN_IDENTIFIER")))
  ELSE IF r.p.current.type \in ArgStart
  THEN IF r.p.current.type \notin ExprStart
       THEN Result([r.p EXCEPT !.hang = TRUE, !.had_error = TRUE], r.node)
       ELSE CallLoop(src,
              CallOn(r.node, ArgsLoop(src, FirstArg(parse_expression(src, r.p)))))
  ELSE r

parse_call(src, p) == CallLoop(src, parse_primary(src, p))

\* ast_make_import(module_name) after the consume
ImportOn(src, p) == Result(p, ast_make_import(token_to_string(src, p.previous)))

\* ast_make_let(name, value) once the value is parsed
LetOn(name, value) == Result(value.p, ast_make_let(name, value.node))

\* the let statement after its name was consumed
LetValue(src, p) ==
  LetOn(token_to_string(src, p.previous),
        parse_expression(src, consume(src, p, "TOKEN_COLON_EQUAL")))

\* ast_make_if(condition, then_branch, else_branch)
IfOn(condition, then_branch, else_branch) ==
  Result(else_branch.p,
         ast_make_if(condition, then_branch, else_branch.node))

\* the if statement after then_branch and the newlines behind it
IfElse(src, condition, then_branch, p) ==
  IF check(p, "TOKEN_ELSE")
  THEN IfOn(condition, then_branch,
            parse_statement(src, skip_newlines(src, advance(src, p))))
  ELSE Result(p, ast_make_if(condition, then_branch, NULL_NODE))

IfThen(src, condition, then_branch) ==
  IfElse(src, condition, then_branch.node, skip_newlines(src, then_branch.p))

\* the if statement after its condition
IfCondition(src, condition) ==
  IfThen(src, condition.node,
         parse_statement(src,
           skip_newlines(src, consume(src, condition.p, "TOKEN_THEN"))))

\* ast_make_while(condition, body)
WhileOn(condition, body) ==
  Result(body.p, ast_make_while(condition, body.node))

\* the while statement after its condition
WhileCondition(src, condition) ==
  WhileOn(condition.node,
          parse_statement(src,
            skip_newlines(src, consume(src, condition.p, "TOKEN_THEN"))))

\* ast_make_loop(body)
LoopOn(body) == Result(body.p, ast_make_loop(body.node))

\* parse_statement after its leading skip_newlines
Statement(src, p) ==
  CASE check(p, "TOKEN_IMPORT") ->
         ImportOn(src, consume(src, advance(src, p), "TOKEN_IDENTIFIER"))
    [] check(p, "TOKEN_LET") ->
         LetValue(src, consume(src, advance(src, p), "TOKEN_IDENTIFIER"))
    [] check(p, "TOKEN_IF") ->
         IfCondition(src, parse_expression(src, advance(src, p)))
    [] check(p, "TOKEN_WHILE") ->
         WhileCondition(src, parse_expression(src, advance(src, p)))
    [] check(p, "TOKEN_LOOP") ->
         LoopOn(parse_statement(src, skip_newlines(src, advance(src, p))))
    [] check(p, "TOKEN_BREAK") -> Result(advance(src, p), ast_make_break)
    [] check(p, "TOKEN_CONTINUE") -> Result(advance(src, p), ast_make_continue)
    [] OTHER -> parse_expression(src, p)

parse_statement(src, p) == Statement(src, skip_newlines(src, p))

parser_init(src) ==
  advance(src, [lexer |-> lexer_init, current |-> NoToken, previous |-> NoToken,
                had_error |-> FALSE, hang |-> FALSE])

RECURSIVE ProgramLoop(_, _, _)

\* after one statement and the newlines behind it
ProgramNext(src, p, stmts) ==
  IF p.hang \/ p.had_error THEN [p |-> p, program |-> NULL_NODE]
  ELSE ProgramLoop(src, p, stmts)

\* if (stmt) stmts[stmt_count++] = stmt; skip_newlines(p)
ProgramStatement(src, stmts, r) ==
  ProgramNext(src, skip_newlines(src, r.p),
              IF r.node # NULL_NODE THEN Append(stmts, r.node) ELSE stmts)

\* the while (!check(TOKEN_EOF)) of parser_parse
ProgramLoop(src, p, stmts) ==
  IF check(p, "TOKEN_EOF")
  THEN [p |-> p, program |-> ast_make_program(stmts)]
  ELSE ProgramStatement(src, stmts, parse_statement(src, p))

\* parser_init + parser_parse: [p, program]; p.hang means it never returns
parser_parse(src) ==
  ProgramLoop(src, skip_newlines(src, parser_init(src)), <<>>)
-----------------------------------------------------------------------------
(* Values (value.h / value.c).  A Value is [type, v]; a string payload is   *)
(* its characters (no operation compares string pointers).                  *)

value_make_nil == [type |-> "VALUE_NIL", v |-> 0]
value_make_bool(b) == [type |-> "VALUE_BOOL", v |-> b]
value_make_int(i) == [type |-> "VALUE_INT", v |-> i]
value_make_float(f) == [type |-> "VALUE_FLOAT", v |-> f]
value_make_string(chars) == [type |-> "VALUE_STRING", v |-> chars]
value_make_native_fn(fn) == [type |-> "VALUE_NATIVE_FN", v |-> fn]

IS_NIL(x) == x.type = "VALUE_NIL"
IS_BOOL(x) == x.type = "VALUE_BOOL"
IS_INT(x) == x.type = "VALUE_INT"
IS_FLOAT(x) == x.type = "VALUE_FLOAT"
IS_STRING(x) == x.type = "VALUE_STRING"
IS_NATIVE_FN(x) == x.type = "VALUE_NATIVE_FN"

-----------------------------------------------------------------------------
(* Opcodes (vm.h) and limits (common.h) *)

OP_CONSTANT == 0
OP_POP == 1
OP_GET_LOCAL == 2
OP_SET_LOCAL == 3
OP_GET_GLOBAL == 4
OP_CALL_NATIVE == 5
OP_IMPORT == 6
OP_ADD == 8
OP_SUBTRACT == 9
OP_MULTIPLY == 10
OP_DIVIDE == 11
OP_MODULO == 12
OP_NEGATE == 13
OP_EQUAL == 14
OP_NOT_EQUAL == 15
OP_LESS == 16
OP_LESS_EQUAL == 17
OP_GREATER == 18
OP_GREATER_EQUAL == 19
OP_NOT == 20
OP_JUMP == 21
OP_JUMP_IF_FALSE == 22
OP_LOOP == 23
OP_HALT == 26

SATORI_STACK_MAX == 256
SATORI_MAX_LOCALS == 256

-----------------------------------------------------------------------------
(* Compiler (codegen.c).  A Compiler is [code, constants, locals,          *)
(* had_error, message]: the chunk's bytes and pool, the names of the       *)
(* locals (the local at index i has slot i - 1), the error flag and the    *)
(* last diagnostic written.                                                *)

emit_byte(c, byte) == [c EXCEPT !.code = Append(@, byte % 256)]

emit_bytes(c, byte1, byte2) == emit_byte(emit_byte(c, byte1), byte2)

\* error_report_simple(message); c->had_error = true: message is the last
\* diagnostic the compiler wrote
error_report_simple(c, message) ==
  [c EXCEPT !.had_error = TRUE, !.message = message]

\* emit_jump returns chunk->count - 2: JumpSite of the compiler it leaves
emit_jump(c, instruction) ==
  emit_byte(emit_byte(emit_byte(c, instruction), 255), 255)

JumpSite(c) == Len(c.code) - 2

\* a patch that forgets the two operand bytes
PatchJumpFromSite(c, offset) ==
  [c EXCEPT !.code[offset + 1] = ((Len(c.code) - offset) \div 256) % 256,
            !.code[offset + 2] = (Len(c.code) - offset) % 256]

patch_jump(c, offset) ==
  LET jump == Len(c.code) - offset - 2 IN
  IF jump > 65535 THEN error_report_simple(c, "Too much code to jump over")
  ELSE [c EXCEPT !.code[offset + 1] = (jump \div 256) % 256,
                 !.code[offset + 2] = jump % 256]

\* an emit_loop that rejects the largest offset as well
EmitLoopStrict(c, loop_start) ==
  IF Len(c.code) + 1 - loop_start + 2 >= 65535
  THEN error_report_simple(emit_byte(c, OP_LOOP), "Loop body too large")
  ELSE emit_byte(emit_byte(emit_byte(c, OP_LOOP),
                           ((Len(c.code) + 3 - loop_start) \div 256) % 256),
                 (Len(c.code) + 3 - loop_start) % 256)

emit_loop(c, loop_start) ==
  LET c1 == emit_byte(c, OP_LOOP)
      offset == Len(c1.code) - loop_start + 2
  IN IF offset > 65535 THEN error_report_simple(c1, "Loop body too large")
     ELSE emit_byte(emit_byte(c1, (offset \div 256) % 256), offset % 256)

\* a make_constant that reuses the index of an equal constant
MakeConstantShared(c, value) ==
  IF \E i \in 1..Len(c.constants) : c.constants[i] = value
  THEN [c |-> c,
        index |-> (CHOOSE i \in 1..Len(c.constants) : c.constants[i] = value) - 1]
  ELSE [c |-> [c EXCEPT !.constants = Append(@, value)],
        index |-> Len(c.constants)]

\* chunk_add_constant + make_constant: [c, index]
make_constant(c, value) ==
  LET constant == Len(c.constants)
      c1 == [c EXCEPT !.constants = Append(@, value)]
  IN IF constant > 255
     THEN [c |-> error_report_simple(c1, "Too many constants in one chunk"),
           index |-> 0]
     ELSE [c |-> c1, index |-> constant]

\* an add_local without the limit
AddLocalUnchecked(c, name) ==
  [c |-> [c EXCEPT !.locals = Append(@, name)], slot |-> Len(c.locals)]

\* add_local: [c, slot]
add_local(c, name) ==
  IF Len(c.locals) >= SATORI_MAX_LOCALS
  THEN [c |-> error_report_simple(c, "Too many local variables"), slot |-> -1]
  ELSE [c |-> [c EXCEPT !.locals = Append(@, name)], slot |-> Len(c.locals)]

\* a lookup that scans from the oldest local
ResolveOldest(c, name) ==
  IF \E i \in 1..Len(c.locals) : c.locals[i] = name
  THEN (CHOOSE i \in 1..Len(c.locals) :
          /\ c.locals[i] = name
          /\ \A j \in 1..(i - 1) : c.locals[j] # name) - 1
  ELSE -1

\* a lookup that finds every name, in slot 0
ResolveAlways(c, name) == 0

resolve_local(c, name) ==
  LET hits == {i \in 1..Len(c.locals) : c.locals[i] = name} IN
  IF hits = {} THEN -1
  ELSE (CHOOSE i \in hits : \A j \in hits : j <= i) - 1

BinaryOpcode(op) ==
  CASE op = "BIN_ADD" -> OP_ADD
    [] op = "BIN_SUB" -> OP_SUBTRACT
    [] op = "BIN_MUL" -> OP_MULTIPLY
    [] op = "BIN_DIV" -> OP_DIVIDE
    [] op = "BIN_MOD" -> OP_MODULO
    [] op = "BIN_EQ" -> OP_EQUAL
    [] op = "BIN_NEQ" -> OP_NOT_EQUAL
    [] op = "BIN_LT" -> OP_LESS
    [] op = "BIN_LTE" -> OP_LESS_EQUAL
    [] op = "BIN_GT" -> OP_GREATER
    [] op = "BIN_GTE" -> OP_GREATER_EQUAL

UnaryOpcode(op) == IF op = "UNARY_NEG" THEN OP_NEGATE ELSE OP_NOT

RECURSIVE compile_node(_, _), CompileList(_, _, _)

\* for (i = 0; i < count; i++) compile_node(c, nodes[i]), from index i
\* (Len(c.code) < 0 never holds: it has c evaluated before the next node)
CompileList(c, nodes, i) ==
  IF Len(c.code) < 0 \/ i > Len(nodes) THEN c
  ELSE CompileList(compile_node(c, nodes[i]), nodes, i + 1)

compile_call(c, node) ==
  IF node.callee.type = "AST_MEMBER_ACCESS"
     /\ node.callee.object.type = "AST_IDENTIFIER"
  THEN LET full_name == node.callee.object.name \o <<".">> \o node.callee.member
           k == make_constant(c, value_make_string(full_name))
           c1 == emit_bytes(k.c, OP_GET_GLOBAL, k.index)
           c2 == CompileList(c1, node.args, 1)
           c3 == emit_bytes(c2, OP_CALL_NATIVE, Len(node.args))
       IN emit_byte(c3, OP_POP)
  ELSE error_report_simple(c, "Unknown function call")

compile_node(c, node) ==
  CASE node.type = "NULL" -> c
    [] node.type = "AST_PROGRAM" -> CompileList(c, node.statements, 1)
    [] node.type = "AST_IMPORT" ->
         LET k == make_constant(c, value_make_string(node.module_name))
         IN emit_bytes(k.c, OP_IMPORT, k.index)
    [] node.type = "AST_LET" ->
         LET c1 == compile_node(c, node.value)
             a == add_local(c1, node.name)
         IN IF a.slot >= 0 THEN emit_bytes(a.c, OP_SET_LOCAL, a.slot) ELSE a.c
    [] node.type = "AST_ASSIGNMENT" ->
         LET c1 == compile_node(c, node.value)
             slot == resolve_local(c1, node.name)
         IN IF slot >= 0 THEN emit_bytes(c1, OP_SET_LOCAL, slot)
            ELSE error_report_simple(c1, "Undefined variable in assignment")
    [] node.type = "AST_IDENTIFIER" ->
         LET slot == resolve_local(c, node.name)
         IN IF slot >= 0 THEN emit_bytes(c, OP_GET_LOCAL, slot)
            ELSE error_report_simple(c, "Undefined variable")
    [] node.type = "AST_BINARY_OP" ->
         emit_byte(compile_node(compile_node(c, node.left), node.right),
                   BinaryOpcode(node.op))
    [] node.type = "AST_UNARY_OP" ->
         emit_byte(compile_node(c, node.operand), UnaryOpcode(node.op))
    [] node.type = "AST_IF" ->
         LET c1 == emit_jump(compile_node(c, node.condition), OP_JUMP_IF_FALSE)
             else_jump == JumpSite(c1)
             c2 == compile_node(emit_byte(c1, OP_POP), node.then_branch)
             c3 == emit_jump(c2, OP_JUMP)
             end_jump == JumpSite(c3)
             c4 == emit_byte(patch_jump(c3, else_jump), OP_POP)
             c5 == compile_node(c4, node.else_branch)
         IN patch_jump(c5, end_jump)
    [] node.type = "AST_WHILE" ->
         LET loop_start == Len(c.code)
             c1 == emit_jump(compile_node(c, node.condition), OP_JUMP_IF_FALSE)
             exit_jump == JumpSite(c1)
             c2 == compile_node(emit_byte(c1, OP_POP), node.body)
             c3 == emit_loop(c2, loop_start)
         IN emit_byte(patch_jump(c3, exit_jump), OP_POP)
    [] node.type = "AST_LOOP" ->
         emit_loop(compile_node(c, node.body), Len(c.code))
    [] node.type = "AST_BREAK" ->
         error_report_simple(c, "break not yet implemented")
    [] node.type = "AST_CONTINUE" ->
         error_report_simple(c, "continue not yet implemented")
    [] node.type = "AST_BLOCK" -> CompileList(c, node.statements, 1)
    [] node.type = "AST_CALL" -> compile_call(c, node)
    [] node.type = "AST_MEMBER_ACCESS" ->
         error_report_simple(c, "Member access must be used in a call")
    [] node.type = "AST_STRING_LITERAL" ->
         LET k == make_constant(c, value_make_string(node.value))
         IN emit_bytes(k.c, OP_CONSTANT, k.index)
    [] node.type = "AST_INT_LITERAL" ->
         LET k == make_constant(c, value_make_int(node.value))
         IN emit_bytes(k.c, OP_CONSTANT, k.index)
    [] node.type = "AST_FLOAT_LITERAL" ->
         LET k == make_constant(c, value_make_float(node.value))
         IN emit_bytes(k.c, OP_CONSTANT, k.index)
    [] OTHER -> error_report_simple(c, "Unknown AST node type in codegen")

\* the Compiler codegen_compile starts from
compiler_init ==
  [code |-> <<>>, constants |-> <<>>, locals |-> <<>>, had_error |-> FALSE,
   message |-> ""]

\* a codegen_compile that emits no OP_HALT
CodegenCompileNoHalt(ast) ==
  [code |-> compile_node(compiler_init, ast).code,
   constants |-> compile_node(compiler_init, ast).constants,
   ok |-> ~compile_node(compiler_init, ast).had_error,
   message |-> compile_node(compiler_init, ast).message]

\* codegen_compile: [code, constants, ok, message]
codegen_compile(ast) ==
  LET c == compile_node(compiler_init, ast)
      c1 == emit_byte(c, OP_HALT)
  IN [code |-> c1.code, constants |-> c1.constants, ok |-> ~c1.had_error,
      message |-> c1.message]
-----------------------------------------------------------------------------
(* Hash table (table.c): open addressing, linear probing, FNV-1a.          *)
(* A Table is [count, capacity, entries]; entries[i + 1] is the entry at   *)
(* index i, [key, value], with key = NoKey for a NULL key.                 *)

\* the bytes 32..126 in order (GRAVE is byte 96); Code gives (u8)key[i]
Printable ==
  <<" ", "!", "\"", "#", "$", "%", "&", "'", "(", ")", "*", "+",
     ",", "-", ".", "/", "0", "1", "2", "3", "4", "5", "6", "7",
     "8", "9", ":", ";", "<", "=", ">", "?", "@", "A", "B", "C",
     "D", "E", "F", "G", "H", "I", "J", "K", "L", "M", "N", "O",
     "P", "Q", "R", "S", "T", "U", "V", "W", "X", "Y", "Z", "[",
     "\\", "]", "^", "_", "GRAVE", "a", "b", "c", "d", "e", "f", "g",
     "h", "i", "j", "k", "l", "m", "n", "o", "p", "q", "r", "s",
     "t", "u", "v", "w", "x", "y", "z", "{", "|", "}", "~">>

Code(ch) ==
  IF ch = "\n" THEN 10 ELSE IF ch = "\t" THEN 9 ELSE IF ch = "\r" THEN 13
  ELSE 31 + (CHOOSE i \in 1..Len(Printable) : Printable[i] = ch)

RECURSIVE Xor(_, _)
Xor(a, b) ==
  IF a = 0 THEN b ELSE IF b = 0 THEN a
  ELSE ((a + b) % 2) + 2 * Xor(a \div 2, b \div 2)

\* hash_string modulo 2^16: the table's capacities are powers of two up to
\* 2^16, so hash % capacity only depends on these low bits
\* (2166136261 % 65536 = 40389, 16777619 % 65536 = 403); h and c
\* name the hash so far and the character code, each evaluated once
RECURSIVE HashFrom(_, _, _)
HashFrom(key, i, hash) ==
  IF i > Len(key) THEN hash
  ELSE HashFrom(key, i + 1,
                CHOOSE r \in {(Xor(h, c) * 403) % 65536 :
                                h \in {hash}, c \in {Code(key[i])}} : TRUE)

hash_string(key) == HashFrom(key, 1, 40389)

NoKey == <<NUL>>

\* find_entry: the 0-based index of the entry for key (probes counts the
\* slots tried; the C loop does not end on a full table without the key)
RECURSIVE Probe(_, _, _, _, _)
Probe(entries, capacity, key, index, probes) ==
  IF probes >= capacity THEN -1
  ELSE IF entries[index + 1].key = NoKey \/ entries[index + 1].key = key
  THEN index
  ELSE Probe(entries, capacity, key, (index + 1) % capacity, probes + 1)

find_entry(entries, capacity, key) ==
  Probe(entries, capacity, key, hash_string(key) % capacity, 0)

RECURSIVE Rehash(_, _, _, _)
Rehash(old, i, entries, capacity) ==
  IF i > Len(old) THEN entries
  ELSE IF old[i].key = NoKey THEN Rehash(old, i + 1, entries, capacity)
  ELSE Rehash(old, i + 1,
              [entries EXCEPT ![find_entry(entries, capacity, old[i].key) + 1]
                 = old[i]],
              capacity)

adjust_capacity(table, capacity) ==
  LET fresh == [i \in 1..capacity |-> [key |-> NoKey, value |-> value_make_nil]]
      entries == Rehash(table.entries, 1, fresh, capacity)
  IN [count |-> Cardinality({i \in 1..Len(table.entries) :
                                 table.entries[i].key # NoKey}),
      capacity |-> capacity, entries |-> entries]

table_init == [count |-> 0, capacity |-> 0, entries |-> <<>>]

\* table_get: [found, value]
table_get(table, key) ==
  IF table.count = 0 THEN [found |-> FALSE, value |-> value_make_nil]
  ELSE LET e == table.entries[find_entry(table.entries, table.capacity, key) + 1]
       IN IF e.key = NoKey THEN [found |-> FALSE, value |-> value_make_nil]
          ELSE [found |-> TRUE, value |-> e.value]

\* count + 1 > capacity * TABLE_MAX_LOAD, with TABLE_MAX_LOAD = 0.75 = 3/4
table_set(table, key, value) ==
  CHOOSE r \in
    {[count |-> IF t.entries[i].key = NoKey THEN t.count + 1 ELSE t.count,
      capacity |-> t.capacity,
      entries |-> [t.entries EXCEPT ![i] = [key |-> key, value |-> value]]] :
       <<t, i>> \in {<<g, find_entry(g.entries, g.capacity, key) + 1>> :
                       g \in {IF (tb.count + 1) * 4 > tb.capacity * 3
                              THEN adjust_capacity(tb,
                                     IF tb.capacity < 8 THEN 8
                                     ELSE tb.capacity * 2)
                              ELSE tb : tb \in {table}}}} : TRUE

\* the bool table_set returns: is_new_key, tested after the growth
is_new_key(table, key) ==
  IF (table.count + 1) * 4 > table.capacity * 3
  THEN \E t \in {adjust_capacity(table,
                    IF table.capacity < 8 THEN 8 ELSE table.capacity * 2)} :
         t.entries[find_entry(t.entries, t.capacity, key) + 1].key = NoKey
  ELSE table.entries[find_entry(table.entries, table.capacity, key) + 1].key
         = NoKey

\* the bool table_delete returns
table_deleted(table, key) ==
  /\ table.count # 0
  /\ table.entries[find_entry(table.entries, table.capacity, key) + 1].key
       # NoKey

\* a delete that clears the entry and forgets the count
TableDeleteKeepCount(table, key) ==
  IF ~table_deleted(table, key) THEN table
  ELSE [table EXCEPT
          !.entries[find_entry(table.entries, table.capacity, key) + 1]
             = [key |-> NoKey, value |-> value_make_nil]]

table_delete(table, key) ==
  IF table.count = 0 THEN table
  ELSE LET i == find_entry(table.entries, table.capacity, key) + 1
       IN IF table.entries[i].key = NoKey THEN table
          ELSE [table EXCEPT !.count = @ - 1,
                  !.entries[i] = [key |-> NoKey, value |-> value_make_nil]]
-----------------------------------------------------------------------------
(* f64 arithmetic on exact rationals and value.c's conversions *)

RatAdd(a, b) == Rat(a.num * b.den + b.num * a.den, a.den * b.den)
RatSub(a, b) == Rat(a.num * b.den - b.num * a.den, a.den * b.den)
RatMul(a, b) == Rat(a.num * b.num, a.den * b.den)
RatDiv(a, b) == Rat(a.num * b.den, a.den * b.num)
RatLess(a, b) == a.num * b.den < b.num * a.den

value_equal(a, b) ==
  IF a.type # b.type THEN FALSE
  ELSE CASE a.type = "VALUE_NIL" -> TRUE
         [] a.type = "VALUE_BOOL" -> a.v = b.v
         [] a.type = "VALUE_INT" -> a.v = b.v
         [] a.type = "VALUE_FLOAT" -> a.v = b.v
         [] OTHER -> FALSE

value_to_float(x) ==
  IF IS_INT(x) THEN Rat(x.v, 1) ELSE IF IS_FLOAT(x) THEN x.v ELSE Rat(0, 1)

\* is_truthy of OP_NOT
is_truthy(x) == ~(IS_NIL(x) \/ (IS_BOOL(x) /\ ~x.v))

\* a truthiness under which the zeros are falsy too
IsFalsyOrZero(x) ==
  \/ IS_NIL(x)
  \/ (IS_BOOL(x) /\ ~x.v)
  \/ (IS_INT(x) /\ x.v = 0)

\* is_falsy of OP_JUMP_IF_FALSE
is_falsy(x) == IS_NIL(x) \/ (IS_BOOL(x) /\ ~x.v)

RECURSIVE DigitsOf(_)
DigitsOf(n) ==
  IF n < 10 THEN <<Printable[17 + n]>>
  ELSE Append(DigitsOf(n \div 10), Printable[17 + (n % 10)])

\* printf("%lld")
FormatInt(i) == IF i < 0 THEN <<"-">> \o DigitsOf(-i) ELSE DigitsOf(i)

RECURSIVE Exp10(_, _)
\* the decimal exponent X of a positive rational: 10^X <= x < 10^(X+1)
Exp10(x, e) ==
  IF ~RatLess(x, Rat(1, 1))
  THEN IF RatLess(x, Rat(Pow10(e + 1), 1)) THEN e ELSE Exp10(x, e + 1)
  ELSE IF ~RatLess(RatMul(x, Rat(Pow10(1 - e), 1)), Rat(1, 1)) THEN e - 1
       ELSE Exp10(x, e - 1)

RECURSIVE StripZeros(_)
StripZeros(ds) ==
  IF Len(ds) > 1 /\ ds[Len(ds)] = "0" THEN StripZeros(SubSeq(ds, 1, Len(ds) - 1))
  ELSE ds

\* the nearest integer to a positive rational, ties to even, given its floor
RoundFrom(scaled, fl) ==
  IF 2 * (scaled.num - fl * scaled.den) > scaled.den
     \/ (2 * (scaled.num - fl * scaled.den) = scaled.den /\ fl % 2 = 1)
  THEN fl + 1 ELSE fl

Round(scaled) == RoundFrom(scaled, scaled.num \div scaled.den)

\* x * 10^(5 - X0): six digits before the decimal point
Scale(x, X0) ==
  IF X0 <= 5 THEN RatMul(x, Rat(Pow10(5 - X0), 1))
  ELSE RatDiv(x, Rat(Pow10(X0 - 5), 1))

\* "." and the fraction digits, nothing when they are all zero
GFraction(frac) == IF frac = <<"0">> THEN <<>> ELSE <<".">> \o Tail(frac)

\* the exponent of the scientific form, at least two digits
GExponent(ex) == IF Len(ex) < 2 THEN <<"0">> \o ex ELSE ex

\* the text for the six digits ds and the decimal exponent X
GText(X, ds) ==
  IF X >= 0 /\ X < 6 THEN
    SubSeq(ds, 1, X + 1)
      \o GFraction(StripZeros(<<"0">> \o SubSeq(ds, X + 2, 6)))
  ELSE IF X < 0 /\ X >= -4 THEN
    <<"0", ".">> \o [i \in 1..(-X - 1) |-> "0"] \o StripZeros(ds)
  ELSE
    <<ds[1]>> \o GFraction(StripZeros(<<"0">> \o Tail(ds)))
      \o <<"e", IF X < 0 THEN "-" ELSE "+">>
      \o GExponent(DigitsOf(Abs(X)))

\* rounding up to 1000000 carries into the exponent
GDigits(X0, m0) ==
  GText(IF m0 = 1000000 THEN X0 + 1 ELSE X0,
        DigitsOf(IF m0 = 1000000 THEN 100000 ELSE m0))

GFrom(x, X0) == GDigits(X0, Round(Scale(x, X0)))

GMagnitude(x) == GFrom(x, Exp10(x, 0))

\* printf("%g"): 6 significant digits, round half to even, trailing zeros
\* removed, scientific form when the exponent is < -4 or >= 6
FormatG(f) ==
  IF f.num = 0 THEN <<"0">>
  ELSE (IF f.num < 0 THEN <<"-">> ELSE <<>>)
         \o GMagnitude(Rat(Abs(f.num), f.den))

\* value_print: the characters written to stdout
value_print(value) ==
  CASE value.type = "VALUE_NIL" -> <<"n", "i", "l">>
    [] value.type = "VALUE_BOOL" ->
         IF value.v THEN <<"t", "r", "u", "e">> ELSE <<"f", "a", "l", "s", "e">>
    [] value.type = "VALUE_INT" -> FormatInt(value.v)
    [] value.type = "VALUE_FLOAT" -> FormatG(value.v)
    [] value.type = "VALUE_STRING" -> value.v
    [] value.type = "VALUE_NATIVE_FN" ->
         <<"<", "n", "a", "t", "i", "v", "e", " ", "f", "n", ">">>
-----------------------------------------------------------------------------
(* Native functions (io.c, string.c) and the module registry (module.c) *)

\* print_formatted: the characters written, from format index i (1-based)
\* and argument index arg_index
RECURSIVE print_formatted(_, _, _, _)
print_formatted(format, i, args, arg_index) ==
  IF i > Len(format) THEN <<>>
  ELSE IF format[i] = "{" /\ i < Len(format) /\ format[i + 1] = "}"
  THEN IF arg_index < Len(args)
       THEN value_print(args[arg_index + 1])
              \o print_formatted(format, i + 2, args, arg_index + 1)
       ELSE print_formatted(format, i + 2, args, arg_index)
  ELSE <<format[i]>> \o print_formatted(format, i + 1, args, arg_index)

\* native_io_print; [out, result]
native_io_print(args) ==
  [result |-> value_make_nil,
   out |-> IF Len(args) = 0 THEN <<>>
           ELSE IF ~IS_STRING(args[1]) THEN value_print(args[1])
           ELSE IF Len(args) = 1 THEN args[1].v
           ELSE print_formatted(args[1].v, 1, args, 1)]

\* a println that writes no line terminator
NativeIoPrintlnBare(args) == native_io_print(args)

native_io_println(args) ==
  [result |-> value_make_nil, out |-> native_io_print(args).out \o <<"\n">>]

toupper(ch) ==
  IF ch \in Lower THEN Printable[Code(ch) - 32 - 31] ELSE ch

tolower(ch) ==
  IF ch \in Upper THEN Printable[Code(ch) + 32 - 31] ELSE ch

native_string_to_upper(args) ==
  [result |-> IF Len(args) # 1 \/ ~IS_STRING(args[1]) THEN value_make_nil
              ELSE value_make_string([i \in 1..Len(args[1].v) |-> toupper(args[1].v[i])]),
   out |-> <<>>]

native_string_to_lower(args) ==
  [result |-> IF Len(args) # 1 \/ ~IS_STRING(args[1]) THEN value_make_nil
              ELSE value_make_string([i \in 1..Len(args[1].v) |-> tolower(args[1].v[i])]),
   out |-> <<>>]

\* native(arg_count, args) through the function pointer fn
CallNative(fn, args) ==
  CASE fn = "native_io_println" -> native_io_println(args)
    [] fn = "native_io_print" -> native_io_print(args)
    [] fn = "native_string_to_upper" -> native_string_to_upper(args)
    [] fn = "native_string_to_lower" -> native_string_to_lower(args)

module_register_native(globals, name, function) ==
  table_set(globals, name, value_make_native_fn(function))

\* an initializer that registers io.println only
IoModuleInitPrintln(globals) ==
  module_register_native(globals,
    <<"i", "o", ".", "p", "r", "i", "n", "t", "l", "n">>, "native_io_println")

io_module_init(globals) ==
  module_register_native(
    module_register_native(globals,
      <<"i", "o", ".", "p", "r", "i", "n", "t", "l", "n">>, "native_io_println"),
    <<"i", "o", ".", "p", "r", "i", "n", "t">>, "native_io_print")

string_module_init(globals) ==
  module_register_native(
    module_register_native(globals,
      <<"s", "t", "r", "i", "n", "g", ".", "t", "o", "_", "u", "p", "p", "e", "r">>,
      "native_string_to_upper"),
    <<"s", "t", "r", "i", "n", "g", ".", "t", "o", "_", "l", "o", "w", "e", "r">>,
    "native_string_to_lower")

builtin_modules ==
  <<[name |-> <<"i", "o">>, init |-> "io_module_init"],
    [name |-> <<"s", "t", "r", "i", "n", "g">>, init |-> "string_module_init"]>>

ModuleNames == {builtin_modules[i].name : i \in 1..Len(builtin_modules)}

\* builtin_modules[i].init(vm)
RunInit(init, globals) ==
  IF init = "io_module_init" THEN io_module_init(globals)
  ELSE string_module_init(globals)

AlreadyLoadedNever(loaded_modules, name) == FALSE

\* has module_load found name among the loaded modules
AlreadyLoaded(loaded_modules, name) == table_get(loaded_modules, name).found

\* a loader that accepts every name and marks it loaded
ModuleLoadAny(globals, loaded_modules, name) ==
  [globals |-> globals,
   loaded_modules |-> table_set(loaded_modules, name, value_make_bool(TRUE)),
   ok |-> TRUE, ran |-> NoKey]

\* module_load: [globals, loaded_modules, ok, ran] where ran is the name of
\* the module whose initializer ran, or NoKey
module_load(globals, loaded_modules, name) ==
  IF AlreadyLoaded(loaded_modules, name)
  THEN [globals |-> globals, loaded_modules |-> loaded_modules,
        ok |-> TRUE, ran |-> NoKey]
  ELSE LET hits == {i \in 1..Len(builtin_modules) : builtin_modules[i].name = name}
       IN IF hits # {}
          THEN LET i == CHOOSE i \in hits : \A j \in hits : i <= j
               IN [globals |-> RunInit(builtin_modules[i].init, globals),
                   loaded_modules |->
                     table_set(loaded_modules, name, value_make_bool(TRUE)),
                   ok |-> TRUE, ran |-> name]
          ELSE [globals |-> globals, loaded_modules |-> loaded_modules,
                ok |-> FALSE, ran |-> NoKey]
-----------------------------------------------------------------------------
(* The VM (vm.c): vm_init and one action per opcode handler of vm_run *)

MaxSteps == 80

\* a VM whose globals hold the io module from the start
VmInitEager ==
  [code |-> <<>>, constants |-> <<>>, ip |-> 0, stack |-> <<>>,
   locals |-> [s \in {} |-> value_make_nil], local_count |-> 0,
   globals |-> io_module_init(table_init), loaded_modules |-> table_init]

vm_init ==
  [code |-> <<>>, constants |-> <<>>, ip |-> 0, stack |-> <<>>,
   locals |-> [s \in {} |-> value_make_nil], local_count |-> 0,
   globals |-> table_init, loaded_modules |-> table_init]

\* what a read of memory the program never wrote can yield: stack[-1],
\* a locals slot below local_count that no OP_SET_LOCAL stored to
Garbage ==
  {value_make_nil, value_make_bool(FALSE), value_make_bool(TRUE),
   value_make_int(1907552)}

\* AS_FLOAT of a value that is neither an int nor a float reads the union's
\* bytes as a double
GarbageFloat == {Rat(0, 1), Rat(1, 1)}

\* u8 instruction = READ_BYTE() sees op at the cursor
Dispatch(op) ==
  /\ phase = "running"
  /\ steps < MaxSteps
  /\ vm.ip < Len(vm.code)
  /\ vm.code[vm.ip + 1] = op
  /\ visits' = [visits EXCEPT ![vm.ip] = @ + 1]
  /\ steps' = steps + 1
  /\ UNCHANGED <<mode, source, lexer, tokens, program,
                 unit>>

\* the operand byte and the big-endian operand short after the opcode
ReadByte == vm.code[vm.ip + 2]
ReadShort == vm.code[vm.ip + 2] * 256 + vm.code[vm.ip + 3]

\* error_fatal: diagnostic, then exit(1)
error_fatal(message) ==
  /\ phase' = "exit"
  /\ exit_code' = 1
  /\ diag' = message
  /\ UNCHANGED <<vm, out>>

\* the handler ends with break: the loop goes on with VM state v
Break(v) ==
  /\ vm' = v
  /\ UNCHANGED <<phase, exit_code, diag, out>>

\* stack_push(value) after the cursor moved to ip
Push(st, value, ip) ==
  IF Len(st) >= SATORI_STACK_MAX THEN error_fatal("Stack overflow")
  ELSE Break([vm EXCEPT !.stack = Append(st, value), !.ip = ip])

Top(n) == vm.stack[Len(vm.stack) - n]
Popped(n) == SubSeq(vm.stack, 1, Len(vm.stack) - n)

OpConstant ==
  /\ Dispatch(OP_CONSTANT)
  /\ UNCHANGED <<init_calls, load_calls>>
  /\ Push(vm.stack, vm.constants[ReadByte + 1], vm.ip + 2)

OpPop ==
  /\ Dispatch(OP_POP)
  /\ UNCHANGED <<init_calls, load_calls>>
  /\ IF Len(vm.stack) <= 0 THEN error_fatal("Stack underflow")
     ELSE Break([vm EXCEPT !.stack = Popped(1), !.ip = @ + 1])

OpSetLocal ==
  /\ Dispatch(OP_SET_LOCAL)
  /\ UNCHANGED <<init_calls, load_calls>>
  /\ LET slot == ReadByte IN
     IF slot >= SATORI_MAX_LOCALS
     THEN error_fatal("Local variable slot out of bounds")
     ELSE IF Len(vm.stack) <= 0 THEN error_fatal("Stack underflow")
     ELSE Break([vm EXCEPT
            !.locals = [s \in DOMAIN vm.locals \cup {slot} |->
                          IF s = slot THEN Top(0) ELSE vm.locals[s]],
            !.local_count = IF slot >= @ THEN slot + 1 ELSE @,
            !.stack = Popped(1),
            !.ip = @ + 2])

OpGetLocal ==
  /\ Dispatch(OP_GET_LOCAL)
  /\ UNCHANGED <<init_calls, load_calls>>
  /\ LET slot == ReadByte IN
     IF slot >= vm.local_count
     THEN error_fatal("Undefined local variable")
     ELSE \E value \in (IF slot \in DOMAIN vm.locals
                        THEN {vm.locals[slot]} ELSE Garbage) :
            Push(vm.stack, value, vm.ip + 2)

OpGetGlobal ==
  /\ Dispatch(OP_GET_GLOBAL)
  /\ UNCHANGED <<init_calls, load_calls>>
  /\ \E g \in {table_get(vm.globals, vm.constants[ReadByte + 1].v)} :
        IF ~g.found THEN error_fatal("Undefined global")
        ELSE Push(vm.stack, g.value, vm.ip + 2)

\* a call that pops its arguments and leaves the callee on the stack
OpCallNativeKeepCallee ==
  /\ Dispatch(OP_CALL_NATIVE)
  /\ UNCHANGED <<init_calls, load_calls>>
  /\ IF Len(vm.stack) < ReadByte + 1 \/ ~IS_NATIVE_FN(Top(ReadByte))
     THEN error_fatal("Can only call native functions")
     ELSE \E r \in {CallNative(Top(ReadByte).v,
                                SubSeq(vm.stack, Len(vm.stack) - ReadByte + 1,
                                       Len(vm.stack)))} :
             /\ vm' = [vm EXCEPT !.stack = Append(Popped(ReadByte), r.result),
                                 !.ip = @ + 2]
             /\ out' = out \o r.out
             /\ UNCHANGED <<phase, exit_code, diag>>

OpCallNative ==
  /\ Dispatch(OP_CALL_NATIVE)
  /\ UNCHANGED <<init_calls, load_calls>>
  /\ LET arg_count == ReadByte IN
     IF Len(vm.stack) < arg_count + 1
     THEN \* the callee is read from below the stack
          \/ error_fatal("Can only call native functions")
          \/ /\ phase' = "crash"
             /\ exit_code' = 139
             /\ UNCHANGED <<vm, out, diag>>
     ELSE IF ~IS_NATIVE_FN(Top(arg_count))
     THEN error_fatal("Can only call native functions")
     ELSE \E r \in {CallNative(Top(arg_count).v,
                                SubSeq(vm.stack, Len(vm.stack) - arg_count + 1,
                                       Len(vm.stack)))} :
             /\ vm' = [vm EXCEPT !.stack = Append(Popped(arg_count + 1), r.result),
                                 !.ip = @ + 2]
             /\ out' = out \o r.out
             /\ UNCHANGED <<phase, exit_code, diag>>

\* the bookkeeping of module_load calls and initializer runs
Ran(calls, ran) ==
  IF ran = NoKey THEN calls ELSE [calls EXCEPT ![ran] = @ + 1]

Called(calls, name) ==
  [m \in DOMAIN calls \cup {name} |->
     IF m = name THEN (IF m \in DOMAIN calls THEN calls[m] + 1 ELSE 1)
     ELSE calls[m]]

OpImport ==
  /\ Dispatch(OP_IMPORT)
  /\ \E module_name \in {vm.constants[ReadByte + 1].v} :
     \E r \in {module_load(vm.globals, vm.loaded_modules, module_name)} :
        /\ init_calls' = Ran(init_calls, r.ran)
        /\ load_calls' = Called(load_calls, module_name)
        /\ IF ~r.ok THEN error_fatal("Failed to load module")
           ELSE Break([vm EXCEPT !.globals = r.globals,
                                 !.loaded_modules = r.loaded_modules,
                                 !.ip = @ + 2])
\* IS_INT(x) ? (f64)AS_INT(x) : AS_FLOAT(x)
AsFloat(x) ==
  IF IS_INT(x) THEN {Rat(x.v, 1)} ELSE IF IS_FLOAT(x) THEN {x.v}
  ELSE GarbageFloat

\* the C operator %: the result has the sign of the dividend
CMod(a, b) == IF a < 0 THEN -(Abs(a) % Abs(b)) ELSE a % Abs(b)

OpAdd ==
  /\ Dispatch(OP_ADD)
  /\ UNCHANGED <<init_calls, load_calls>>
  /\ IF Len(vm.stack) < 2 THEN error_fatal("Stack underflow")
     ELSE LET b == Top(0)
              a == Top(1)
          IN IF IS_INT(a) /\ IS_INT(b)
             THEN Push(Popped(2), value_make_int(a.v + b.v), vm.ip + 1)
             ELSE \E a_val \in AsFloat(a), b_val \in AsFloat(b) :
                    Push(Popped(2), value_make_float(RatAdd(a_val, b_val)), vm.ip + 1)

\* OP_SUBTRACT with the later-pushed value as the left operand
OpSubtractSwapped ==
  /\ Dispatch(OP_SUBTRACT)
  /\ UNCHANGED <<init_calls, load_calls>>
  /\ IF Len(vm.stack) < 2 THEN error_fatal("Stack underflow")
     ELSE LET a == Top(0)
              b == Top(1)
          IN IF IS_INT(a) /\ IS_INT(b)
             THEN Push(Popped(2), value_make_int(a.v - b.v), vm.ip + 1)
             ELSE \E a_val \in AsFloat(a), b_val \in AsFloat(b) :
                    Push(Popped(2), value_make_float(RatSub(a_val, b_val)), vm.ip + 1)

OpSubtract ==
  /\ Dispatch(OP_SUBTRACT)
  /\ UNCHANGED <<init_calls, load_calls>>
  /\ IF Len(vm.stack) < 2 THEN error_fatal("Stack underflow")
     ELSE LET b == Top(0)
              a == Top(1)
          IN IF IS_INT(a) /\ IS_INT(b)
             THEN Push(Popped(2), value_make_int(a.v - b.v), vm.ip + 1)
             ELSE \E a_val \in AsFloat(a), b_val \in AsFloat(b) :
                    Push(Popped(2), value_make_float(RatSub(a_val, b_val)), vm.ip + 1)

OpMultiply ==
  /\ Dispatch(OP_MULTIPLY)
  /\ UNCHANGED <<init_calls, load_calls>>
  /\ IF Len(vm.stack) < 2 THEN error_fatal("Stack underflow")
     ELSE LET b == Top(0)
              a == Top(1)
          IN IF IS_INT(a) /\ IS_INT(b)
             THEN Push(Popped(2), value_make_int(a.v * b.v), vm.ip + 1)
             ELSE \E a_val \in AsFloat(a), b_val \in AsFloat(b) :
                    Push(Popped(2), value_make_float(RatMul(a_val, b_val)), vm.ip + 1)

OpDivideUnchecked ==
  /\ Dispatch(OP_DIVIDE)
  /\ UNCHANGED <<init_calls, load_calls>>
  /\ IF Len(vm.stack) < 2 THEN error_fatal("Stack underflow")
     ELSE \E a_val \in AsFloat(Top(1)) :
            Push(Popped(2), value_make_float(a_val), vm.ip + 1)

OpDivide ==
  /\ Dispatch(OP_DIVIDE)
  /\ UNCHANGED <<init_calls, load_calls>>
  /\ IF Len(vm.stack) < 2 THEN error_fatal("Stack underflow")
     ELSE \E a_val \in AsFloat(Top(1)), b_val \in AsFloat(Top(0)) :
            IF b_val.num = 0 THEN error_fatal("Division by zero")
            ELSE Push(Popped(2), value_make_float(RatDiv(a_val, b_val)), vm.ip + 1)

OpModulo ==
  /\ Dispatch(OP_MODULO)
  /\ UNCHANGED <<init_calls, load_calls>>
  /\ IF Len(vm.stack) < 2 THEN error_fatal("Stack underflow")
     ELSE LET b == Top(0)
              a == Top(1)
          IN IF ~IS_INT(a) \/ ~IS_INT(b)
             THEN error_fatal("Modulo requires integer operands")
             ELSE IF b.v = 0 THEN error_fatal("Modulo by zero")
             ELSE Push(Popped(2), value_make_int(CMod(a.v, b.v)), vm.ip + 1)

OpNegate ==
  /\ Dispatch(OP_NEGATE)
  /\ UNCHANGED <<init_calls, load_calls>>
  /\ IF Len(vm.stack) < 1 THEN error_fatal("Stack underflow")
     ELSE LET a == Top(0) IN
          IF IS_INT(a) THEN Push(Popped(1), value_make_int(-a.v), vm.ip + 1)
          ELSE IF IS_FLOAT(a)
          THEN Push(Popped(1), value_make_float(Rat(-a.v.num, a.v.den)), vm.ip + 1)
          ELSE error_fatal("Cannot negate non-numeric value")

OpEqual ==
  /\ Dispatch(OP_EQUAL)
  /\ UNCHANGED <<init_calls, load_calls>>
  /\ IF Len(vm.stack) < 2 THEN error_fatal("Stack underflow")
     ELSE Push(Popped(2), value_make_bool(value_equal(Top(1), Top(0))), vm.ip + 1)

OpNotEqual ==
  /\ Dispatch(OP_NOT_EQUAL)
  /\ UNCHANGED <<init_calls, load_calls>>
  /\ IF Len(vm.stack) < 2 THEN error_fatal("Stack underflow")
     ELSE Push(Popped(2), value_make_bool(~value_equal(Top(1), Top(0))), vm.ip + 1)

OpLess ==
  /\ Dispatch(OP_LESS)
  /\ UNCHANGED <<init_calls, load_calls>>
  /\ IF Len(vm.stack) < 2 THEN error_fatal("Stack underflow")
     ELSE LET a_val == value_to_float(Top(1))
              b_val == value_to_float(Top(0))
          IN Push(Popped(2), value_make_bool(RatLess(a_val, b_val)), vm.ip + 1)

OpLessEqual ==
  /\ Dispatch(OP_LESS_EQUAL)
  /\ UNCHANGED <<init_calls, load_calls>>
  /\ IF Len(vm.stack) < 2 THEN error_fatal("Stack underflow")
     ELSE LET a_val == value_to_float(Top(1))
              b_val == value_to_float(Top(0))
          IN Push(Popped(2), value_make_bool(~RatLess(b_val, a_val)), vm.ip + 1)

OpGreater ==
  /\ Dispatch(OP_GREATER)
  /\ UNCHANGED <<init_calls, load_calls>>
  /\ IF Len(vm.stack) < 2 THEN error_fatal("Stack underflow")
     ELSE LET a_val == value_to_float(Top(1))
              b_val == value_to_float(Top(0))
          IN Push(Popped(2), value_make_bool(RatLess(b_val, a_val)), vm.ip + 1)

OpGreaterEqual ==
  /\ Dispatch(OP_GREATER_EQUAL)
  /\ UNCHANGED <<init_calls, load_calls>>
  /\ IF Len(vm.stack) < 2 THEN error_fatal("Stack underflow")
     ELSE LET a_val == value_to_float(Top(1))
              b_val == value_to_float(Top(0))
          IN Push(Popped(2), value_make_bool(~RatLess(a_val, b_val)), vm.ip + 1)

OpNot ==
  /\ Dispatch(OP_NOT)
  /\ UNCHANGED <<init_calls, load_calls>>
  /\ IF Len(vm.stack) < 1 THEN error_fatal("Stack underflow")
     ELSE Push(Popped(1), value_make_bool(~is_truthy(Top(0))), vm.ip + 1)

\* OP_JUMP taken backwards, as OP_LOOP is
OpJumpBackward ==
  /\ Dispatch(OP_JUMP)
  /\ UNCHANGED <<init_calls, load_calls>>
  /\ Break([vm EXCEPT !.ip = @ + 3 - ReadShort])

OpJump ==
  /\ Dispatch(OP_JUMP)
  /\ UNCHANGED <<init_calls, load_calls>>
  /\ Break([vm EXCEPT !.ip = @ + 3 + ReadShort])

\* stack_peek(vm, 0) does not check the stack: on an empty stack the
\* condition is whatever lies below it
OpJumpIfFalse ==
  /\ Dispatch(OP_JUMP_IF_FALSE)
  /\ UNCHANGED <<init_calls, load_calls>>
  /\ \E condition \in (IF Len(vm.stack) > 0 THEN {Top(0)} ELSE Garbage) :
       Break([vm EXCEPT !.ip = IF is_falsy(condition) THEN @ + 3 + ReadShort
                               ELSE @ + 3])

OpLoop ==
  /\ Dispatch(OP_LOOP)
  /\ UNCHANGED <<init_calls, load_calls>>
  /\ Break([vm EXCEPT !.ip = @ + 3 - ReadShort])

\* vm_run returns true and main exits with status 0
OpHalt ==
  /\ Dispatch(OP_HALT)
  /\ phase' = "exit"
  /\ exit_code' = 0
  /\ UNCHANGED <<vm, out, diag, init_calls, load_calls>>

-----------------------------------------------------------------------------
(* Drivers.  main.c -t: dump_tokens *)

\* the state shared by every driver before it starts
\* no library call is pending
NoCall == [fn |-> "none"]

Idle ==
  /\ compiler = compiler_init
  /\ tab = table_init
  /\ call = NoCall

\* no driver has run
Quiet ==
  /\ lexer = lexer_init
  /\ tokens = <<>>
  /\ vm = vm_init
  /\ out = <<>>
  /\ diag = ""
  /\ exit_code = -1
  /\ visits = <<>>
  /\ init_calls = [m \in ModuleNames |-> 0]
  /\ load_calls = [m \in {} |-> 0]
  /\ steps = 0

Fresh ==
  /\ Idle
  /\ Quiet

\* the reserved words (spec section 6)
ReservedWords ==
  {<<"a","n","d">>,
   <<"o","r">>,
   <<"n","o","t">>,
   <<"i","f">>,
   <<"e","l","s","e">>,
   <<"t","h","e","n">>,
   <<"f","o","r">>,
   <<"i","n">>,
   <<"l","o","o","p">>,
   <<"w","h","i","l","e">>,
   <<"b","r","e","a","k">>,
   <<"c","o","n","t","i","n","u","e">>,
   <<"r","e","t","u","r","n">>,
   <<"s","t","r","u","c","t">>,
   <<"l","e","t">>,
   <<"i","m","p","o","r","t">>,
   <<"d","e","f","e","r">>,
   <<"s","p","a","w","n">>,
   <<"p","a","n","i","c">>,
   <<"t","r","u","e">>,
   <<"f","a","l","s","e">>,
   <<"n","i","l">>,
   <<"i","n","t">>,
   <<"f","l","o","a","t">>,
   <<"b","o","o","l">>,
   <<"s","t","r","i","n","g">>,
   <<"v","o","i","d">>,
   <<"b","y","t","e">>}

MaxPad == 1

PadChars == {"x", "_", "1"}

RECURSIVE Pads(_)
\* the words over PadChars of length at most n
Pads(n) ==
  IF n = 0 THEN {<<>>}
  ELSE Pads(n - 1) \cup {Append(w, ch) : w \in Pads(n - 1), ch \in PadChars}

OtherWords ==
  {<<"f","o","o">>,
   <<"b","a","r","_","1","2","3">>,
   <<"_","t","e","s","t">>,
   <<"x">>,
   <<"q">>,
   <<"a","n","d","y">>,
   <<"i">>,
   <<"i","o">>,
   <<"p","r","i","n","t","l","n">>,
   <<"I","f">>,
   <<"L","E","T">>,
   <<"t","1">>,
   <<"z","9","_">>,
   <<"n">>,
   <<"i","m","p","o","r","t","s">>,
   <<"l","e","t","s">>,
   <<"i","f","f","y">>,
   <<"w","h","i","l","e","s">>,
   <<"f","o","r","m">>,
   <<"e","l","s","e","w","h","e","r","e">>}

\* identifier-shaped inputs: every nonempty prefix of a reserved word, every
\* reserved word, reserved words with a suffix, and other names
LexSources ==
  UNION {{SubSeq(w, 1, k) \o pad : k \in 1..Len(w), pad \in Pads(MaxPad)} :
           w \in ReservedWords}
    \cup OtherWords

InitLex ==
  /\ mode = "tokens"
  /\ phase = "lexing"
  /\ source \in LexSources
  /\ program = NULL_NODE
  /\ Fresh

\* one round of the do-while of dump_tokens
DumpTokens ==
  /\ mode = "tokens"
  /\ phase = "lexing"
  /\ \E r \in {lexer_next_token(source, lexer)} :
     /\ lexer' = r.lexer
     /\ tokens' = Append(tokens, r.tok)
     /\ phase' = IF r.tok.type = "TOKEN_EOF" THEN "exit" ELSE "lexing"
     /\ exit_code' = IF r.tok.type = "TOKEN_EOF" THEN 0 ELSE exit_code
  /\ UNCHANGED <<mode, source, program, vm, out, diag, visits, init_calls,
                 load_calls, steps,
                 unit>>

\* the two-character spellings of lexer.h
TwoCharOperators ==
  {<<"=", "=">>, <<"!", "=">>, <<"<", "=">>, <<">", "=">>, <<":", "=">>,
   <<".", ".">>, <<"+", "=">>, <<"-", "=">>, <<"*", "=">>, <<"/", "=">>,
   <<"-", ">">>}

\* the pieces sources are put together from: the two-character spellings,
\* their characters, white space, a newline, a comment, a name, numbers, a
\* string, a character of no token and an unterminated string
Pieces ==
  TwoCharOperators
    \cup {<<ch>> : ch \in {"=", "!", "<", ">", ":", ".", "+", "-", "*", "/"}}
    \cup {<<" ">>, <<"\t">>, <<"\r">>, <<"\n">>, <<"/", "/", "c">>, <<"x">>,
          <<"1">>, <<"1", ".", "5">>, <<"\"", "s", "\"">>, <<"@">>,
          <<"\"", "s">>}

MaxPieces == 2

RECURSIVE Joined(_)
\* the texts of up to n pieces
Joined(n) ==
  IF n = 0 THEN {<<>>}
  ELSE Joined(n - 1) \cup {w \o piece : w \in Joined(n - 1), piece \in Pieces}

ScanSources == Joined(MaxPieces)

\* lexer_init(&lexer, source) of a program that calls lexer_next_token
\* itself (tests/test_lexer.c)
InitScan ==
  /\ mode = "scan"
  /\ phase = "lexing"
  /\ source \in ScanSources
  /\ program = NULL_NODE
  /\ Fresh

\* Token t = lexer_next_token(&lexer), until the end-of-file token
NextToken ==
  /\ mode = "scan"
  /\ phase = "lexing"
  /\ \E r \in {lexer_next_token(source, lexer)} :
     /\ lexer' = r.lexer
     /\ tokens' = Append(tokens, r.tok)
     /\ phase' = IF r.tok.type = "TOKEN_EOF" THEN "done" ELSE "lexing"
  /\ UNCHANGED <<mode, source, program, vm, out, diag, exit_code, visits,
                 init_calls, load_calls, steps, unit>>

NextLex == DumpTokens \/ NextToken

SpecLex == (InitLex \/ InitScan) /\ [][NextLex]_vars
-----------------------------------------------------------------------------
(* main.c -a: dump_ast *)

\* the binary operators: spelling, AST tag and precedence level
\* (1 equality, 2 comparison, 3 term, 4 factor)
BinOps ==
  {[text |-> <<"=", "=">>, op |-> "BIN_EQ", level |-> 1],
   [text |-> <<"!", "=">>, op |-> "BIN_NEQ", level |-> 1],
   [text |-> <<"<">>, op |-> "BIN_LT", level |-> 2],
   [text |-> <<"<", "=">>, op |-> "BIN_LTE", level |-> 2],
   [text |-> <<">">>, op |-> "BIN_GT", level |-> 2],
   [text |-> <<">", "=">>, op |-> "BIN_GTE", level |-> 2],
   [text |-> <<"+">>, op |-> "BIN_ADD", level |-> 3],
   [text |-> <<"-">>, op |-> "BIN_SUB", level |-> 3],
   [text |-> <<"*">>, op |-> "BIN_MUL", level |-> 4],
   [text |-> <<"/">>, op |-> "BIN_DIV", level |-> 4],
   [text |-> <<"%">>, op |-> "BIN_MOD", level |-> 4]}

UnaryOps ==
  {[text |-> <<"-">>, op |-> "UNARY_NEG"], [text |-> <<"!">>, op |-> "UNARY_NOT"]}

IntOperand(d) == [text |-> <<d>>, node |-> ast_make_int_literal(DigitVal(d))]
NameOperand(n) == [text |-> <<n>>, node |-> ast_make_identifier(<<n>>)]

OperandTriples ==
  {<<IntOperand("1"), IntOperand("2"), IntOperand("3")>>,
   <<IntOperand("2"), IntOperand("3"), IntOperand("4")>>,
   <<NameOperand("x"), NameOperand("y"), NameOperand("z")>>}

\* the expression statement `x o1 y o2 z`
TripleText(t, o1, o2) ==
  t[1].text \o <<" ">> \o o1.text \o <<" ">> \o t[2].text \o <<" ">>
    \o o2.text \o <<" ">> \o t[3].text \o <<"\n">>

\* the expression statement `u x o y`
UnaryText(t, u, o) ==
  u.text \o t[1].text \o <<" ">> \o o.text \o <<" ">> \o t[2].text \o <<"\n">>

Callees ==
  {[text |-> <<"x">>, node |-> ast_make_identifier(<<"x">>)],
   [text |-> <<"i", "o", ".", "p", "r", "i", "n", "t", "l", "n">>,
    node |-> ast_make_member_access(ast_make_identifier(<<"i", "o">>),
                                    <<"p", "r", "i", "n", "t", "l", "n">>)],
   [text |-> <<"m", ".", "y", ".", "z">>,
    node |-> ast_make_member_access(
               ast_make_member_access(ast_make_identifier(<<"m">>), <<"y">>),
               <<"z">>)]}

\* one argument for each argument-starting token
ArgItems ==
  {[text |-> <<"\"", "s", "\"">>, node |-> ast_make_string_literal(<<"s">>)],
   [text |-> <<"1">>, node |-> ast_make_int_literal(1)],
   [text |-> <<"2", ".", "5">>, node |-> ast_make_float_literal(Rat(5, 2))],
   [text |-> <<"k">>, node |-> ast_make_identifier(<<"k">>)],
   [text |-> <<"-", "1">>,
    node |-> ast_make_unary_op("UNARY_NEG", ast_make_int_literal(1))],
   [text |-> <<"!", "k">>,
    node |-> ast_make_unary_op("UNARY_NOT", ast_make_identifier(<<"k">>))],
   [text |-> <<"(", "1", ")">>, node |-> ast_make_int_literal(1)]}

MaxArgs == 2

ArgLists == UNION {[1..n -> ArgItems] : n \in 1..MaxArgs}

RECURSIVE ArgsText(_, _)
ArgsText(args, i) ==
  IF i > Len(args) THEN <<>>
  ELSE (IF i > 1 THEN <<",", " ">> ELSE <<>>) \o args[i].text \o ArgsText(args, i + 1)

\* the expression statement `callee arg, arg, ...`
CallText(callee, args) == callee.text \o <<" ">> \o ArgsText(args, 1) \o <<"\n">>

\* sources whose arguments are themselves followed by argument-starting tokens
NestedCallSources ==
  {<<"i", "o", ".", "p", "r", "i", "n", "t", "l", "n", " ", "\"", "x", "\"", " ", "1", "\n">>,
   <<"x", " ", "y", " ", "1", ",", " ", "2", "\n">>,
   <<"x", " ", "1", ",", " ", "y", " ", "2", ",", " ", "3", "\n">>,
   <<"x", ".", "y", " ", "k", ".", "q", " ", "1", "\n">>}

ParseSources ==
  {TripleText(t, o1, o2) : t \in OperandTriples, o1 \in BinOps, o2 \in BinOps}
    \cup {UnaryText(t, u, o) : t \in OperandTriples, u \in UnaryOps, o \in BinOps}
    \cup {CallText(c, args) : c \in Callees, args \in ArgLists}
    \cup NestedCallSources

InitParse ==
  /\ mode = "ast"
  /\ phase = "parse"
  /\ source \in ParseSources
  /\ program = NULL_NODE
  /\ Fresh

\* dump_ast: parser_init, parser_parse, then ast_print or "Parse failed";
\* a parse that never returns leaves the driver in "hang"
DumpAst ==
  /\ mode = "ast"
  /\ phase = "parse"
  /\ \E r \in {parser_parse(source)} :
     /\ program' = r.program
     /\ phase' = IF r.p.hang THEN "hang" ELSE "exit"
     /\ exit_code' = IF r.p.hang THEN exit_code ELSE 0
     /\ diag' = IF r.p.had_error THEN "parse error" ELSE diag
  /\ UNCHANGED <<mode, source, lexer, tokens, vm, out, visits, init_calls,
                 load_calls, steps,
                 unit>>

NextParse == DumpAst

SpecParse == InitParse /\ [][NextParse]_vars

-----------------------------------------------------------------------------
(* main.c without -t / -a: parse, compile, run; codegen_compile on an AST   *)
(* built with the ast_make_ constructors; module_load called on a fresh VM  *)
(* as in tests/test_module_system.c                                         *)

Scenario2 ==
  <<"i","m","p","o","r","t"," ","i","o","\n","l","e","t"," ","x"," ",":","="," ","2"," ","+"," ","3"," ","*"," ","4","\n","i","o",".","p","r","i","n","t","l","n"," ","\"","{","}","\"",","," ","x","\n">>

Scenario3 ==
  <<"i","m","p","o","r","t"," ","i","o","\n","l","e","t"," ","a"," ",":","="," ","7","\n","l","e","t"," ","b"," ",":","="," ","1","0","\n","i","o",".","p","r","i","n","t","l","n"," ","\"","{","}"," ","<"," ","{","}"," ","="," ","{","}","\"",","," ","a",","," ","b",","," ","a"," ","<"," ","b","\n">>

Scenario4 ==
  <<"i","m","p","o","r","t"," ","i","o","\n","l","e","t"," ","s","c","o","r","e"," ",":","="," ","7","5","\n","i","f"," ","s","c","o","r","e"," ",">","="," ","8","0"," ","t","h","e","n","\n"," "," ","i","o",".","p","r","i","n","t","l","n"," ","\"","B"," ","o","r"," ","b","e","t","t","e","r","\"","\n","e","l","s","e","\n"," "," ","i","o",".","p","r","i","n","t","l","n"," ","\"","b","e","l","o","w"," ","B","\"","\n">>

SrcCompare ==
  <<"i","m","p","o","r","t"," ","i","o","\n","l","e","t"," ","k"," ",":","="," ","7","\n","l","e","t"," ","q"," ",":","="," ","1","0","\n","i","o",".","p","r","i","n","t","l","n"," ","\"","{","}"," ","<"," ","{","}"," ","="," ","{","}","\"",","," ","k",","," ","q",","," ","k"," ","<"," ","q","\n">>

SrcExprStatement ==
  <<"5","\n">>

SrcLetCall ==
  <<"i","m","p","o","r","t"," ","i","o","\n","l","e","t"," ","y"," ",":","="," ","i","o",".","p","r","i","n","t","l","n"," ","\"","a","\"","\n">>

SrcBranchLocal ==
  <<"l","e","t"," ","q"," ",":","="," ","7","\n","i","f"," ","q"," ","<"," ","1"," ","t","h","e","n"," ","l","e","t"," ","x"," ",":","="," ","1","\n","l","e","t"," ","y"," ",":","="," ","2","\n","x","\n">>

SrcBranchLocalOnly ==
  <<"l","e","t"," ","q"," ",":","="," ","7","\n","i","f"," ","q"," ","<"," ","1"," ","t","h","e","n"," ","l","e","t"," ","x"," ",":","="," ","1","\n","x","\n">>

SrcImportTwice ==
  <<"i","m","p","o","r","t"," ","i","o","\n","i","m","p","o","r","t"," ","i","o","\n","i","o",".","p","r","i","n","t","l","n"," ","\"","h","i","\"","\n","i","m","p","o","r","t"," ","i","o","\n">>

SrcUnknownModule ==
  <<"i","m","p","o","r","t"," ","n","o","p","e","\n">>

SrcNoImport ==
  <<"i","o",".","p","r","i","n","t","l","n"," ","\"","x","\"","\n">>

SrcArith ==
  <<"i","m","p","o","r","t"," ","i","o","\n","i","o",".","p","r","i","n","t","l","n"," ","\"","{","}"," ","{","}"," ","{","}"," ","{","}"," ","{","}","\"",","," ","7"," ","/"," ","2",","," ","7"," ","%"," ","3",","," ","2"," ","*"," ","3",","," ","-","4",","," ","1"," ","+"," ","2","\n","i","o",".","p","r","i","n","t","l","n"," ","\"","{","}"," ","{","}"," ","{","}"," ","{","}"," ","{","}"," ","{","}","\"",","," ","1"," ","<","="," ","2",","," ","2"," ",">"," ","1",","," ","2"," ",">","="," ","1",","," ","1"," ","!","="," ","2",","," ","1"," ","=","="," ","1",","," ","!","0","\n">>

SrcWhileCall ==
  <<"i","m","p","o","r","t"," ","i","o","\n","5","\n","w","h","i","l","e"," ","i","o",".","p","r","i","n","t"," ","\"","c","\""," ","t","h","e","n"," ","i","o",".","p","r","i","n","t"," ","\"","b","\"","\n","i","o",".","p","r","i","n","t"," ","\"","A","\"","\n">>

SrcParenArg ==
  <<"i","m","p","o","r","t"," ","i","o","\n","i","o",".","p","r","i","n","t","l","n"," ","(","\"","x","\"",")","\n">>

SrcUndefined ==
  <<"i","m","p","o","r","t"," ","i","o","\n","i","o",".","p","r","i","n","t","l","n"," ","y","\n">>

SrcAddString ==
  <<"i","m","p","o","r","t"," ","i","o","\n","i","o",".","p","r","i","n","t","l","n"," ","1"," ","+"," ","\"","s","\"","\n">>

SrcDivZero ==
  <<"i","m","p","o","r","t"," ","i","o","\n","l","e","t"," ","x"," ",":","="," ","5"," ","/"," ","0","\n","i","o",".","p","r","i","n","t","l","n"," ","\"","n","\"","\n">>

SrcDivZeroFloat ==
  <<"i","m","p","o","r","t"," ","i","o","\n","l","e","t"," ","x"," ",":","="," ","5"," ","/"," ","0",".","0","\n","i","o",".","p","r","i","n","t","l","n"," ","\"","n","\"","\n">>

SrcStringSelf ==
  <<"i","m","p","o","r","t"," ","i","o","\n","l","e","t"," ","s"," ",":","="," ","\"","a","\"","\n","i","o",".","p","r","i","n","t","l","n"," ","s"," ","=","="," ","s","\n">>

SrcLetSelf ==
  <<"l","e","t"," ","x"," ",":","="," ","x","\n">>

SrcPrintThenUndefined ==
  <<"i","m","p","o","r","t"," ","i","o","\n","i","o",".","p","r","i","n","t","l","n"," ","\"","n","\"","\n","y","\n">>

SrcAt ==
  <<"@">>

SrcUnterminated ==
  <<"\"","s","n">>

SrcLetNoAssign ==
  <<"l","e","t"," ","x"," ","5","\n">>

SrcIfNoThen ==
  <<"i","m","p","o","r","t"," ","i","o","\n","i","f"," ","1"," ","i","o",".","p","r","i","n","t","l","n"," ","\"","n","\"","\n">>

SrcWhileNoThen ==
  <<"i","m","p","o","r","t"," ","i","o","\n","w","h","i","l","e"," ","1"," ","i","o",".","p","r","i","n","t","l","n"," ","\"","n","\"","\n">>

SrcImportNoName ==
  <<"i","m","p","o","r","t"," ","5","\n">>

SrcDotNoName ==
  <<"i","m","p","o","r","t"," ","i","o","\n","i","o","."," ","5","\n">>

SrcNoExpression ==
  <<"l","e","t"," ","x"," ",":","=","\n">>

SrcPrintThenAt ==
  <<"i","m","p","o","r","t"," ","i","o","\n","i","o",".","p","r","i","n","t","l","n"," ","\"","n","\""," ","@","\n">>

SrcImportThenNope ==
  <<"i","m","p","o","r","t"," ","i","o","\n","i","m","p","o","r","t"," ","n","o","p","e","\n","i","o",".","p","r","i","n","t","l","n"," ","\"","n","\"","\n">>

SrcLateImport ==
  <<"i","o",".","p","r","i","n","t","l","n"," ","\"","n","\"","\n","i","m","p","o","r","t"," ","i","o","\n">>

\* if-statements over conditions of known truth; a call condition yields
\* the nil its native returns
IfConds ==
  {[text |-> <<"1">>, truthy |-> TRUE, out |-> <<>>],
   [text |-> <<"0">>, truthy |-> TRUE, out |-> <<>>],
   [text |-> <<"\"", "\"">>, truthy |-> TRUE, out |-> <<>>],
   [text |-> <<"1", " ", "<", " ", "2">>, truthy |-> TRUE, out |-> <<>>],
   [text |-> <<"2", " ", "<", " ", "1">>, truthy |-> FALSE, out |-> <<>>],
   [text |-> <<"1", " ", "=", "=", " ", "1">>, truthy |-> TRUE, out |-> <<>>],
   [text |-> <<"1", " ", "!", "=", " ", "1">>, truthy |-> FALSE, out |-> <<>>],
   [text |-> <<"!", "1">>, truthy |-> FALSE, out |-> <<>>],
   [text |-> <<"i", "o", ".", "p", "r", "i", "n", "t", " ", "\"", "c", "\"">>,
    truthy |-> FALSE, out |-> <<"c">>]}

IfPrefixes == {<<>>, <<"5", "\n">>}

\* import io / prefix / if cond then io.print "T" [else io.print "E"] /
\* io.print "A"
IfText(prefix, cond, has_else) ==
  <<"i", "m", "p", "o", "r", "t", " ", "i", "o", "\n">> \o prefix
    \o <<"i", "f", " ">> \o cond.text
    \o <<" ", "t", "h", "e", "n", " ", "i", "o", ".", "p", "r", "i", "n", "t",
         " ", "\"", "T", "\"">>
    \o (IF has_else
        THEN <<" ", "e", "l", "s", "e", " ", "i", "o", ".", "p", "r", "i", "n",
               "t", " ", "\"", "E", "\"">>
        ELSE <<>>)
    \o <<"\n", "i", "o", ".", "p", "r", "i", "n", "t", " ", "\"", "A", "\"", "\n">>

IfSources ==
  {IfText(prefix, cond, has_else) :
     prefix \in IfPrefixes, cond \in IfConds, has_else \in BOOLEAN}

Sources ==
  {Scenario2, Scenario3, Scenario4, SrcCompare, SrcExprStatement, SrcLetCall,
   SrcBranchLocal, SrcBranchLocalOnly, SrcImportTwice, SrcUnknownModule,
   SrcNoImport, SrcArith, SrcWhileCall, SrcParenArg, SrcUndefined,
   SrcAddString,
   SrcDivZero,
   SrcDivZeroFloat,
   SrcStringSelf,
   SrcLetSelf,
   SrcPrintThenUndefined,
   SrcAt,
   SrcUnterminated,
   SrcLetNoAssign,
   SrcIfNoThen,
   SrcWhileNoThen,
   SrcImportNoName,
   SrcDotNoName,
   SrcNoExpression,
   SrcPrintThenAt,
   SrcImportThenNope,
   SrcLateImport}
    \cup IfSources

ImportIo == ast_make_import(<<"i", "o">>)

\* the statement io.print "ch"
PrintCall(ch) ==
  ast_make_call(
    ast_make_member_access(ast_make_identifier(<<"i", "o">>),
                           <<"p", "r", "i", "n", "t">>),
    <<ast_make_string_literal(<<ch>>)>>)

VarN == ast_make_identifier(<<"n">>)

MaxN == 3

WhileConds ==
  {ast_make_binary_op("BIN_GT", VarN, ast_make_int_literal(0)),
   ast_make_binary_op("BIN_NEQ", VarN, ast_make_int_literal(0)),
   ast_make_binary_op("BIN_LT", ast_make_int_literal(0), VarN)}

\* before / while cond then body / io.print "A"
WhileProgram(before, cond, body) ==
  ast_make_program(before \o <<ast_make_while(cond, body), PrintCall("A")>>)

\* import io / let n := count
CounterStart(count) ==
  <<ImportIo, ast_make_let(<<"n">>, ast_make_int_literal(count))>>

\* { io.print "b"; n = n - 1 }
CounterBody ==
  ast_make_block(
    <<PrintCall("b"),
      ast_make_assignment(<<"n">>,
        ast_make_binary_op("BIN_SUB", VarN, ast_make_int_literal(1)))>>)

\* import io / 5
CallStart == <<ImportIo, ast_make_int_literal(5)>>

\* while loops with the number k of truthy evaluations of the condition and
\* what one evaluation of the condition prints: the counter loops, and
\* while io.print "c" then io.print "b", whose condition is always nil
WhileCases ==
  {[before |-> CounterStart(count), cond |-> cond, body |-> CounterBody,
    k |-> count, cond_out |-> <<>>] :
     count \in 0..MaxN, cond \in WhileConds}
    \cup {[before |-> CallStart, cond |-> PrintCall("c"),
           body |-> PrintCall("b"), k |-> 0, cond_out |-> <<"c">>]}

WhilePrograms == {WhileProgram(w.before, w.cond, w.body) : w \in WhileCases}

UseNames == {<<"x">>, <<"y">>}

\* let n := 1, let n := m, the read n, the assignment n = 1
UseStatements ==
  {ast_make_let(n, ast_make_int_literal(1)) : n \in UseNames}
    \cup {ast_make_let(n, ast_make_identifier(m)) : n \in UseNames, m \in UseNames}
    \cup {ast_make_identifier(n) : n \in UseNames}
    \cup {ast_make_assignment(n, ast_make_int_literal(1)) : n \in UseNames}

MaxStatements == 2

\* the programs of up to MaxStatements such statements
UsePrograms ==
  {ast_make_program(stmts) :
     stmts \in UNION {[1..n -> UseStatements] : n \in 1..MaxStatements}}

\* the conditions 1 < 0 and 0 < 1
NestFalse ==
  ast_make_binary_op("BIN_LT", ast_make_int_literal(1), ast_make_int_literal(0))
NestTrue ==
  ast_make_binary_op("BIN_LT", ast_make_int_literal(0), ast_make_int_literal(1))

MaxDepth == 2

\* io.print "b" under up to depth levels of if (with and without else, the
\* nested statement in either branch) and while
RECURSIVE Nested(_)
Nested(depth) ==
  IF depth = 0 THEN {PrintCall("b")}
  ELSE {PrintCall("b")}
         \cup UNION {{ast_make_if(NestTrue, t, NULL_NODE),
                      ast_make_if(NestTrue, t, PrintCall("E")),
                      ast_make_if(NestFalse, t, PrintCall("E")),
                      ast_make_if(NestFalse, PrintCall("T"), t),
                      ast_make_while(NestFalse, t)} : t \in Nested(depth - 1)}

NestedPrograms ==
  {ast_make_program(<<ImportIo, t, PrintCall("A")>>) : t \in Nested(MaxDepth)}

MaxLiterals == 3

\* a block of n literal statements 7
LiteralBlock(n) == ast_make_block([i \in 1..n |-> ast_make_int_literal(7)])

\* import io / io.print "b" / 15 blocks of 16 literals and one of 11 / n
\* literal statements (the first two statements take three pool entries,
\* the blocks 251)
LiteralProgram(n) ==
  ast_make_program(
    <<ImportIo, PrintCall("b")>>
      \o [i \in 1..15 |-> LiteralBlock(16)]
      \o <<LiteralBlock(11)>>
      \o [i \in 1..n |-> ast_make_int_literal(7)])

LiteralPrograms == {LiteralProgram(n) : n \in 0..MaxLiterals}

\* let x := 2, let x := x, let y := x, the read x, the assignment x = 7
ShadowStatements ==
  {ast_make_let(<<"x">>, ast_make_int_literal(2)),
   ast_make_let(<<"x">>, ast_make_identifier(<<"x">>)),
   ast_make_let(<<"y">>, ast_make_identifier(<<"x">>)),
   ast_make_identifier(<<"x">>),
   ast_make_assignment(<<"x">>, ast_make_int_literal(7))}

MaxShadow == 3

\* let x := 1 followed by up to MaxShadow such statements
ShadowPrograms ==
  {ast_make_program(<<ast_make_let(<<"x">>, ast_make_int_literal(1))>> \o stmts) :
     stmts \in UNION {[1..n -> ShadowStatements] : n \in 0..MaxShadow}}

\* the operators whose result depends on the order of the operands
OrderedOps ==
  {"BIN_SUB", "BIN_DIV", "BIN_MOD", "BIN_LT", "BIN_LTE", "BIN_GT", "BIN_GTE"}

\* the operands 7, 2 and 2 - 7
OrderOperands ==
  {ast_make_int_literal(7), ast_make_int_literal(2),
   ast_make_binary_op("BIN_SUB", ast_make_int_literal(2),
                      ast_make_int_literal(7))}

\* the expression statement L op R
OrderPrograms ==
  {ast_make_program(<<ast_make_binary_op(op, l, r)>>) :
     op \in OrderedOps, l \in OrderOperands, r \in OrderOperands}

\* the expression statements -7 and !7
UnaryPrograms ==
  {ast_make_program(<<ast_make_unary_op(op, ast_make_int_literal(7))>>) :
     op \in {"UNARY_NEG", "UNARY_NOT"}}

MaxLets == 3

\* a block of n declarations let x := x
LetBlock(n) ==
  ast_make_block(
    [i \in 1..n |-> ast_make_let(<<"x">>, ast_make_identifier(<<"x">>))])

\* let x := 1 / 15 blocks of 16 declarations / 13 declarations under an if /
\* n declarations: 254 + n declarations in all
LetProgram(n) ==
  ast_make_program(
    <<ast_make_let(<<"x">>, ast_make_int_literal(1))>>
      \o [i \in 1..15 |-> LetBlock(16)]
      \o <<ast_make_if(NestTrue, LetBlock(13), NULL_NODE)>>
      \o [i \in 1..n |-> ast_make_let(<<"x">>, ast_make_identifier(<<"x">>))])

LetPrograms == {LetProgram(n) : n \in 0..MaxLets}

Programs ==
  WhilePrograms \cup UsePrograms \cup NestedPrograms \cup LiteralPrograms
    \cup ShadowPrograms \cup OrderPrograms \cup UnaryPrograms
    \cup LetPrograms

ModuleNope == <<"n", "o", "p", "e">>

LoadNames == ModuleNames \cup {ModuleNope}

MaxLoads == 4

\* Chunks written by hand with chunk_write and chunk_add_constant on a
\* fresh VM, as tests/test_module_bytecode.c does.  A Chunk is
\* [code, constants].

chunk_init == [code |-> <<>>, constants |-> <<>>]

chunk_write(chunk, byte) == [chunk EXCEPT !.code = Append(@, byte)]

\* chunk_add_constant: the chunk with value appended (its index is the
\* old constants count)
chunk_add_constant(chunk, value) ==
  [chunk EXCEPT !.constants = Append(@, value)]

\* OP_CONSTANT of a new constant
WriteConstant(chunk, value) ==
  chunk_write(chunk_write(chunk_add_constant(chunk, value), OP_CONSTANT),
              Len(chunk.constants))

RECURSIVE WriteConstants(_, _)
WriteConstants(chunk, values) ==
  IF values = <<>> THEN chunk
  ELSE WriteConstants(WriteConstant(chunk, Head(values)), Tail(values))

\* one value of every kind, with the zero and the empty one of each
Samples ==
  {value_make_nil, value_make_bool(FALSE), value_make_bool(TRUE),
   value_make_int(0), value_make_int(7), value_make_float(Rat(0, 1)),
   value_make_float(Rat(5, 2)), value_make_string(<<>>),
   value_make_string(<<"s">>), value_make_native_fn("native_io_print")}

BinaryOpcodes ==
  {OP_ADD, OP_SUBTRACT, OP_MULTIPLY, OP_DIVIDE, OP_EQUAL, OP_NOT_EQUAL}

\* push a, push b, op, halt
BinaryChunk(a, b, op) ==
  chunk_write(chunk_write(WriteConstants(chunk_init, <<a, b>>), op), OP_HALT)

BinaryChunks ==
  {BinaryChunk(a, b, op) : a \in Samples, b \in Samples, op \in BinaryOpcodes}

\* push v, not, push v, jump-if-false over the first halt, halt, halt
TruthChunk(v) ==
  chunk_write(chunk_write(chunk_write(chunk_write(chunk_write(
    WriteConstant(chunk_write(WriteConstant(chunk_init, v), OP_NOT), v),
    OP_JUMP_IF_FALSE), 0), 1), OP_HALT), OP_HALT)

TruthChunks == {TruthChunk(v) : v \in Samples}

\* op with a new string constant as its operand
WriteNamed(chunk, op, name) ==
  chunk_write(chunk_write(chunk_add_constant(chunk, value_make_string(name)),
                          op),
              Len(chunk.constants))

RECURSIVE WriteImports(_, _)
WriteImports(chunk, names) ==
  IF names = <<>> THEN chunk
  ELSE WriteImports(WriteNamed(chunk, OP_IMPORT, Head(names)), Tail(names))

\* the qualified names the built-in modules export, and one nobody exports
GlobalNames ==
  {<<"i", "o", ".", "p", "r", "i", "n", "t", "l", "n">>,
   <<"i", "o", ".", "p", "r", "i", "n", "t">>,
   <<"s", "t", "r", "i", "n", "g", ".", "t", "o", "_", "u", "p", "p", "e", "r">>,
   <<"s", "t", "r", "i", "n", "g", ".", "t", "o", "_", "l", "o", "w", "e", "r">>,
   <<"n", "o", "p", "e", ".", "f">>}

MaxImports == 2

\* import each of names, get the global, halt
ImportChunk(names, global) ==
  chunk_write(WriteNamed(WriteImports(chunk_init, names), OP_GET_GLOBAL, global),
              OP_HALT)

ImportChunks ==
  {ImportChunk(names, global) :
     names \in UNION {[1..n -> LoadNames] : n \in 0..MaxImports},
     global \in GlobalNames}

Natives ==
  {value_make_native_fn(fn) :
     fn \in {"native_io_println", "native_io_print", "native_string_to_upper",
             "native_string_to_lower"}}

CallArgs ==
  {value_make_string(<<"{", "}", "s">>), value_make_string(<<"s">>),
   value_make_int(7)}

MaxCallArgs == 2

\* push below, push callee, push args, call with Len(args) arguments, halt
CallChunk(below, callee, args) ==
  chunk_write(chunk_write(chunk_write(
    WriteConstants(chunk_init, below \o <<callee>> \o args),
    OP_CALL_NATIVE), Len(args)), OP_HALT)

CallChunks ==
  {CallChunk(below, callee, args) :
     below \in {<<>>, <<value_make_int(7)>>},
     callee \in Samples \cup Natives,
     args \in UNION {[1..n -> CallArgs] : n \in 0..MaxCallArgs}}

Chunks == BinaryChunks \cup TruthChunks \cup ImportChunks \cup CallChunks

\* vm_init, the chunk written, vm_run about to start
InitChunk ==
  /\ Idle
  /\ mode = "bytecode"
  /\ phase = "running"
  /\ source = <<>>
  /\ program = NULL_NODE
  /\ lexer = lexer_init
  /\ tokens = <<>>
  /\ \E chunk \in Chunks :
       /\ vm = [vm_init EXCEPT !.code = chunk.code,
                               !.constants = chunk.constants]
       /\ visits = [a \in 0..(Len(chunk.code) - 1) |-> 0]
  /\ out = <<>>
  /\ diag = ""
  /\ exit_code = -1
  /\ init_calls = [m \in ModuleNames |-> 0]
  /\ load_calls = [m \in {} |-> 0]
  /\ steps = 0

Init ==
  \/ /\ Fresh
     /\ \/ mode = "run" /\ phase = "parse" /\ source \in Sources
           /\ program = NULL_NODE
        \/ mode = "codegen" /\ phase = "compile" /\ source = <<>>
           /\ program \in Programs
        \/ mode = "module" /\ phase = "api" /\ source = <<>>
           /\ program = NULL_NODE
  \/ InitChunk

\* main: parser_init, parser_parse; no program ends the process with status 1
ParserParse ==
  /\ mode = "run"
  /\ phase = "parse"
  /\ \E r \in {parser_parse(source)} :
     IF r.p.hang
     THEN /\ phase' = "hang"
          /\ diag' = "expected expression"
          /\ UNCHANGED <<program, exit_code>>
     ELSE IF r.program = NULL_NODE
     THEN /\ phase' = "exit"
          /\ exit_code' = 1
          /\ diag' = "parse error"
          /\ UNCHANGED program
     ELSE /\ phase' = "compile"
          /\ program' = r.program
          /\ diag' = IF r.p.had_error THEN "parse error" ELSE diag
          /\ UNCHANGED exit_code
  /\ UNCHANGED <<mode, source, lexer, tokens, vm, out, visits, init_calls,
                 load_calls, steps,
                 unit>>

\* main: vm_init, codegen_compile into vm.chunk; failure ends with status 1
CodegenCompile ==
  /\ mode \in {"run", "codegen"}
  /\ phase = "compile"
  /\ \E r \in {codegen_compile(program)} :
     IF ~r.ok
     THEN /\ phase' = "exit"
          /\ exit_code' = 1
          /\ diag' = r.message
          /\ UNCHANGED <<vm, visits>>
     ELSE /\ phase' = "running"
          /\ vm' = [vm_init EXCEPT !.code = r.code, !.constants = r.constants]
          /\ visits' = [a \in 0..(Len(r.code) - 1) |-> 0]
          /\ UNCHANGED <<exit_code, diag>>
  /\ UNCHANGED <<mode, source, lexer, tokens, program, out, init_calls,
                 load_calls, steps,
                 unit>>

\* module_load(&vm, name) called by the embedding program
ModuleLoadCall ==
  /\ mode = "module"
  /\ phase = "api"
  /\ steps < MaxLoads
  /\ \E name \in LoadNames :
       \E r \in {module_load(vm.globals, vm.loaded_modules, name)} :
       /\ vm' = [vm EXCEPT !.globals = r.globals,
                           !.loaded_modules = r.loaded_modules]
       /\ init_calls' = Ran(init_calls, r.ran)
       /\ load_calls' = Called(load_calls, name)
       /\ diag' = IF r.ok THEN diag ELSE "Unknown module"
  /\ steps' = steps + 1
  /\ UNCHANGED <<mode, phase, source, lexer, tokens, program, out, exit_code,
                 visits,
                 unit>>

Next ==
  \/ ParserParse \/ CodegenCompile \/ ModuleLoadCall
  \/ OpConstant \/ OpPop \/ OpSetLocal \/ OpGetLocal \/ OpGetGlobal
  \/ OpCallNative \/ OpImport \/ OpAdd \/ OpSubtract \/ OpMultiply
  \/ OpDivide \/ OpModulo \/ OpNegate \/ OpEqual \/ OpNotEqual \/ OpLess
  \/ OpLessEqual \/ OpGreater \/ OpGreaterEqual \/ OpNot \/ OpJump
  \/ OpJumpIfFalse \/ OpLoop \/ OpHalt

Spec == Init /\ [][Next]_vars

\* for (;;) of vm_run: one instruction is dispatched
VmRun ==
  \/ OpConstant \/ OpPop \/ OpSetLocal \/ OpGetLocal \/ OpGetGlobal
  \/ OpCallNative \/ OpImport \/ OpAdd \/ OpSubtract \/ OpMultiply
  \/ OpDivide \/ OpModulo \/ OpNegate \/ OpEqual \/ OpNotEqual \/ OpLess
  \/ OpLessEqual \/ OpGreater \/ OpGreaterEqual \/ OpNot \/ OpJump
  \/ OpJumpIfFalse \/ OpLoop \/ OpHalt

MaxParsed == 16

\* the runs termination is checked on: every constructed program, chunk and
\* module call, and the sources of at most MaxParsed characters
InitFair == Init /\ (mode = "run" => Len(source) <= MaxParsed)

\* the loop of vm_run keeps dispatching: the process takes its next
\* instruction whenever there is one
SpecFair == InitFair /\ [][Next]_vars /\ WF_vars(VmRun)

-----------------------------------------------------------------------------
(* The compiler about to close a jump: compile_node is inside               *)
(*   let x := 1 / if x then E     or     let x := 1 / while !x then E       *)
(* with E = !..!x + x + ... + x already compiled, and calls patch_jump      *)
(* for the if's else_jump, or emit_loop for the while.                      *)

MaxTerms == 21843
MaxNots == 2

Terms == (0..1) \cup ((MaxTerms - 3)..MaxTerms)

\* the code of E with nots NOTs and terms additions, x in slot 0
ExprCode(nots, terms) ==
  <<OP_GET_LOCAL, 0>> \o [i \in 1..nots |-> OP_NOT]
    \o [i \in 1..(3 * terms) |->
          IF i % 3 = 1 THEN OP_GET_LOCAL ELSE IF i % 3 = 2 THEN 0 ELSE OP_ADD]

Emitted(c, bytes) == [c EXCEPT !.code = @ \o bytes]

LetX == ast_make_let(<<"x">>, ast_make_int_literal(1))
VarX == ast_make_identifier(<<"x">>)

\* AST_IF up to int else_jump = emit_jump(c, OP_JUMP_IF_FALSE)
IfHead ==
  emit_jump(compile_node(compile_node(compiler_init, LetX), VarX),
            OP_JUMP_IF_FALSE)

\* AST_IF up to int end_jump = emit_jump(c, OP_JUMP)
IfPending(nots, terms) ==
  emit_jump(Emitted(emit_byte(IfHead, OP_POP), ExprCode(nots, terms)), OP_JUMP)

\* AST_WHILE up to int exit_jump = emit_jump(c, OP_JUMP_IF_FALSE)
WhileHead ==
  emit_jump(compile_node(compile_node(compiler_init, LetX),
                         ast_make_unary_op("UNARY_NOT", VarX)),
            OP_JUMP_IF_FALSE)

\* AST_WHILE up to the body
WhilePending(nots, terms) ==
  Emitted(emit_byte(WhileHead, OP_POP), ExprCode(nots, terms))

InitJump ==
  /\ Quiet
  /\ mode = "jump"
  /\ phase = "call"
  /\ source = <<>>
  /\ program = NULL_NODE
  /\ tab = table_init
  /\ \E nots \in 0..MaxNots, terms \in Terms :
       \/ /\ compiler = IfPending(nots, terms)
          /\ call = [fn |-> "patch_jump", offset |-> JumpSite(IfHead)]
       \/ /\ compiler = WhilePending(nots, terms)
          /\ call = [fn |-> "emit_loop",
                     offset |-> Len(compile_node(compiler_init, LetX).code)]

\* patch_jump(c, else_jump)
PatchJump ==
  /\ mode = "jump"
  /\ phase = "call"
  /\ call.fn = "patch_jump"
  /\ compiler' = patch_jump(compiler, call.offset)
  /\ phase' = "done"
  /\ steps' = steps + 1
  /\ UNCHANGED <<mode, source, lexer, tokens, program, vm, out, diag,
                 exit_code, visits, init_calls, load_calls, tab, call>>

\* emit_loop(c, loop_start)
EmitLoop ==
  /\ mode = "jump"
  /\ phase = "call"
  /\ call.fn = "emit_loop"
  /\ compiler' = emit_loop(compiler, call.offset)
  /\ phase' = "done"
  /\ steps' = steps + 1
  /\ UNCHANGED <<mode, source, lexer, tokens, program, vm, out, diag,
                 exit_code, visits, init_calls, load_calls, tab, call>>

-----------------------------------------------------------------------------
(* table.c called on one Table: a program that has made the first calls of  *)
(* Script and then makes up to MaxOps calls with any key of Keys.           *)

\* a, i and q share the home slot 4 of a table of capacity 8; b has slot 5
Keys == {<<"a">>, <<"i">>, <<"q">>, <<"b">>}

Vals == {value_make_int(1), value_make_int(2)}

SetOp(key) == [fn |-> "table_set", key |-> <<key>>, value |-> value_make_int(1)]
DeleteOp(key) == [fn |-> "table_delete", key |-> <<key>>]

Script ==
  <<SetOp("a"), SetOp("i"), DeleteOp("a"), SetOp("i"), SetOp("b"),
    SetOp("c"), SetOp("d"), SetOp("e"), SetOp("f"), SetOp("g"), SetOp("h"),
    SetOp("j"), SetOp("k"), SetOp("l")>>

\* the table after the calls ops[i], ops[i + 1], ... up to ops[n]
RECURSIVE RunScript(_, _, _, _)
RunScript(table, ops, i, n) ==
  IF i > n THEN table
  ELSE RunScript(IF ops[i].fn = "table_set"
                 THEN table_set(table, ops[i].key, ops[i].value)
                 ELSE table_delete(table, ops[i].key),
                 ops, i + 1, n)

MaxOps == 3

InitTable ==
  /\ Quiet
  /\ mode = "table"
  /\ phase = "api"
  /\ source = <<>>
  /\ program = NULL_NODE
  /\ compiler = compiler_init
  /\ call = NoCall
  /\ \E n \in 0..Len(Script) : tab = RunScript(table_init, Script, 1, n)

\* the variables no table call touches
TableFrame ==
  /\ steps' = steps + 1
  /\ UNCHANGED <<mode, phase, source, lexer, tokens, program, vm, out, diag,
                 exit_code, visits, init_calls, load_calls, compiler>>

TableSet ==
  /\ mode = "table"
  /\ steps < MaxOps
  /\ \E key \in Keys, value \in Vals :
       /\ tab' = table_set(tab, key, value)
       /\ call' = [fn |-> "table_set", key |-> key, value |-> value,
                   result |-> is_new_key(tab, key)]
  /\ TableFrame

TableDelete ==
  /\ mode = "table"
  /\ steps < MaxOps
  /\ \E key \in Keys :
       /\ tab' = table_delete(tab, key)
       /\ call' = [fn |-> "table_delete", key |-> key,
                   result |-> table_deleted(tab, key)]
  /\ TableFrame

TableGet ==
  /\ mode = "table"
  /\ steps < MaxOps
  /\ \E key \in Keys :
       call' = [fn |-> "table_get", key |-> key,
                result |-> table_get(tab, key)]
  /\ UNCHANGED tab
  /\ TableFrame

\* the values handed to the io natives: a format with one pair, one with a
\* lone brace before two pairs, a plain string, and three non-strings
FormatArgs ==
  {value_make_string(<<"{", "}", "s">>),
   value_make_string(<<"{", "{", "}", "{", "}">>),
   value_make_string(<<"s">>),
   value_make_int(7), value_make_nil, value_make_bool(TRUE)}

MaxFormatArgs == 3

\* an embedding program about to call a native of the io module directly
\* (test_module_system.c, tests 8 and 9)
InitNative ==
  /\ Fresh
  /\ mode = "native"
  /\ phase = "api"
  /\ source = <<>>
  /\ program = NULL_NODE

\* println(arg_count, args) / print(arg_count, args)
NativeIo ==
  /\ mode = "native"
  /\ call = NoCall
  /\ \E fn \in {"native_io_println", "native_io_print"},
        args \in UNION {[1..n -> FormatArgs] : n \in 0..MaxFormatArgs} :
       /\ out' = out \o CallNative(fn, args).out
       /\ call' = [fn |-> fn, args |-> args,
                   result |-> CallNative(fn, args).result]
  /\ steps' = steps + 1
  /\ UNCHANGED <<mode, phase, source, lexer, tokens, program, vm, diag,
                 exit_code, visits, init_calls, load_calls, compiler, tab>>

InitUnit == InitJump \/ InitTable \/ InitNative

NextUnit ==
  PatchJump \/ EmitLoop \/ TableSet \/ TableDelete \/ TableGet \/ NativeIo

SpecUnit == InitUnit /\ [][NextUnit]_vars

-----------------------------------------------------------------------------
(* Claims about the scanner *)

\* C4: an identifier-shaped lexeme becomes a keyword token if and only if
\* its whole spelling is exactly a reserved word; every other spelling is
\* one identifier token covering the whole lexeme.
C4_KeywordIffReserved ==
  (mode = "tokens" /\ Len(tokens) >= 1) =>
    /\ tokens[1].start = 0
    /\ tokens[1].length = Len(source)
    /\ (tokens[1].type # "TOKEN_IDENTIFIER") <=> (source \in ReservedWords)
-----------------------------------------------------------------------------
(* Claims about the parser *)

Bin(o, l, r) == ast_make_binary_op(o.op, l, r)

Parsed == mode = "ast" /\ phase \in {"exit", "hang"}

\* C5: every binary level is left-associative: for two operators o1, o2 of
\* the same level, `x o1 y o2 z` parses to binary_op(o2, binary_op(o1, x, y), z).
C5_LeftAssociative ==
  \A t \in OperandTriples, o1 \in BinOps, o2 \in BinOps :
    (Parsed /\ o1.level = o2.level /\ source = TripleText(t, o1, o2)) =>
      program = ast_make_program(
                  <<Bin(o2, Bin(o1, t[1].node, t[2].node), t[3].node)>>)

\* C6: precedence is equality < comparison < term < factor < unary: in
\* `x o1 y o2 z` with operators of different levels the higher level groups
\* first, and a unary operator binds tighter than any binary operator.
C6_Precedence ==
  /\ \A t \in OperandTriples, o1 \in BinOps, o2 \in BinOps :
       (Parsed /\ o1.level # o2.level /\ source = TripleText(t, o1, o2)) =>
         program = ast_make_program(
                     <<IF o1.level < o2.level
                       THEN Bin(o1, t[1].node, Bin(o2, t[2].node, t[3].node))
                       ELSE Bin(o2, Bin(o1, t[1].node, t[2].node), t[3].node)>>)
  /\ \A t \in OperandTriples, u \in UnaryOps, o \in BinOps :
       (Parsed /\ source = UnaryText(t, u, o)) =>
         program = ast_make_program(
                     <<Bin(o, ast_make_unary_op(u.op, t[1].node), t[2].node)>>)

RECURSIVE CallOnCall(_)
\* does the tree hold a call node whose callee is a call node
CallOnCall(node) ==
  CASE node.type = "AST_PROGRAM" ->
         \E i \in 1..Len(node.statements) : CallOnCall(node.statements[i])
    [] node.type = "AST_CALL" ->
         \/ node.callee.type = "AST_CALL"
         \/ CallOnCall(node.callee)
         \/ \E i \in 1..Len(node.args) : CallOnCall(node.args[i])
    [] node.type = "AST_MEMBER_ACCESS" -> CallOnCall(node.object)
    [] node.type = "AST_BINARY_OP" -> CallOnCall(node.left) \/ CallOnCall(node.right)
    [] node.type = "AST_UNARY_OP" -> CallOnCall(node.operand)
    [] OTHER -> FALSE

\* C7: a callee (primary with its member chain) followed by an
\* argument-starting token parses to one call node with that callee and the
\* comma-separated arguments in source order, and no parse yields a call
\* node whose callee is a call node.
C7_CallForm ==
  /\ \A c \in Callees, args \in ArgLists :
       (Parsed /\ source = CallText(c, args)) =>
         /\ phase = "exit"
         /\ program = ast_make_program(
                        <<ast_make_call(c.node,
                            [i \in 1..Len(args) |-> args[i].node])>>)
  /\ Parsed => ~CallOnCall(program)
-----------------------------------------------------------------------------
(* Claims about compiled programs and the VM *)

AtOpcode(op) ==
  /\ mode \in {"run", "codegen"}
  /\ phase = "running"
  /\ vm.ip < Len(vm.code)
  /\ vm.code[vm.ip + 1] = op

\* C1: every statement's code has net stack effect zero, so the stack depth
\* is 0 when OP_HALT executes, for every program the compiler accepts
\* (expression statements and let with a call initializer included).
C1_StackEmptyAtHalt == AtOpcode(OP_HALT) => Len(vm.stack) = 0

\* C2: every OP_GET_LOCAL s that is executed reads a slot that an
\* OP_SET_LOCAL s has written earlier in the same execution.
C2_LocalReadAfterWrite == AtOpcode(OP_GET_LOCAL) => ReadByte \in DOMAIN vm.locals

\* C3: module load is idempotent within one VM: once the initializer of a
\* registered module has run, every further OP_IMPORT / module_load of that
\* name succeeds, does not run the initializer again (it runs at most once,
\* however many loads name the module) and leaves the globals table as it
\* was.
C3_ModuleLoadIdempotent ==
  [][\A m \in ModuleNames :
       /\ init_calls'[m] <= 1
       /\ (init_calls[m] >= 1 /\ load_calls'[m] # load_calls[m])
            => /\ init_calls' = init_calls
               /\ vm'.globals = vm.globals
               /\ diag' = diag
               /\ exit_code' = exit_code]_vars

\* a module has been loaded at least twice and its initializer ran once
C3_Reloaded ==
  \E m \in ModuleNames :
    m \in DOMAIN load_calls /\ load_calls[m] >= 2 /\ init_calls[m] = 1

\* C8: the scenario-3 program is accepted by scanner, parser and compiler
\* and its run prints `7 < 10 = true` and halts successfully.
C8_Scenario3 ==
  (mode = "run" /\ source = Scenario3 /\ phase = "exit")
    => /\ exit_code = 0
       /\ out = <<"7", " ", "<", " ", "1", "0", " ", "=", " ", "t", "r", "u",
                  "e", "\n">>

\* the address of the first instruction compiled after the statements
AddressAfter(statements) ==
  Len(codegen_compile(ast_make_program(statements)).code) - 1

\* the loop start (the condition's first instruction) and the body's first
\* instruction: the condition is followed by OP_JUMP_IF_FALSE and OP_POP
LoopStart(w) == AddressAfter(w.before)
BodyStart(w) == AddressAfter(Append(w.before, w.cond)) + 4

RECURSIVE Times(_, _)
Times(text, n) == IF n = 0 THEN <<>> ELSE text \o Times(text, n - 1)

\* C9: a compiled while whose condition is truthy on its first k
\* evaluations and falsy on evaluation k+1 runs its body exactly k times,
\* evaluates the condition exactly k+1 times and goes on with the
\* instruction after the loop.
C9_WhileRunsBodyKTimes ==
  \A w \in WhileCases :
    (mode = "codegen" /\ program = WhileProgram(w.before, w.cond, w.body)
       /\ phase = "exit")
      => /\ exit_code = 0
         /\ visits[LoopStart(w)] = w.k + 1
         /\ visits[BodyStart(w)] = w.k
         /\ out = Times(w.cond_out \o <<"b">>, w.k) \o w.cond_out \o <<"A">>

\* C10: a compiled if runs exactly one branch, T when the condition value
\* is truthy, E (or nothing without else) when it is nil or false, and
\* execution goes on after the whole if.
C10_IfRunsOneBranch ==
  \A prefix \in IfPrefixes, cond \in IfConds, has_else \in BOOLEAN :
    (mode = "run" /\ source = IfText(prefix, cond, has_else) /\ phase = "exit")
      => /\ exit_code = 0
         /\ out = cond.out
                    \o (IF cond.truthy THEN <<"T">>
                        ELSE IF has_else THEN <<"E">> ELSE <<>>)
                    \o <<"A">>
-----------------------------------------------------------------------------
(* Claims about the opcode handlers *)

\* vm_run is about to dispatch op
About(op) ==
  /\ phase = "running"
  /\ steps < MaxSteps
  /\ vm.ip < Len(vm.code)
  /\ vm.code[vm.ip + 1] = op

Numeric(value) == IS_INT(value) \/ IS_FLOAT(value)

\* the handler ended the run with an error and pushed nothing
Fatal ==
  /\ phase' = "exit"
  /\ exit_code' > 0
  /\ diag' # diag
  /\ vm' = vm
  /\ out' = out

\* C11: OP_ADD, OP_SUBTRACT, OP_MULTIPLY or OP_DIVIDE executed with an
\* operand that is neither int nor float writes a diagnostic and halts the
\* run with an error status instead of pushing a result.
C11_ArithmeticTypeMismatchFatal ==
  [][\A op \in {OP_ADD, OP_SUBTRACT, OP_MULTIPLY, OP_DIVIDE} :
       (About(op) /\ Len(vm.stack) >= 2
          /\ (~Numeric(Top(0)) \/ ~Numeric(Top(1))))
         => Fatal]_vars

DivZeroSources == {SrcDivZero, SrcDivZeroFloat}

\* C12: division by zero is a runtime failure: `let x := 5 / 0` compiles,
\* OP_DIVIDE with a divisor equal to zero (int 0 or float 0.0) halts the
\* run with `Division by zero` and pushes no result, and no opcode
\* executes afterwards (no further output).
C12_DivisionByZero ==
  /\ [][(About(OP_DIVIDE) /\ Len(vm.stack) >= 2
           /\ Top(0) \in {value_make_int(0), value_make_float(Rat(0, 1))})
          => /\ phase' = "exit"
             /\ exit_code' = 1
             /\ diag' = "Division by zero"
             /\ vm' = vm
             /\ out' = out]_vars
  /\ [][phase # "exit"]_vars
  /\ [](mode = "run" /\ source \in DivZeroSources /\ phase = "exit"
          => /\ steps > 0
             /\ exit_code = 1
             /\ diag = "Division by zero"
             /\ out = <<>>)

\* the run of `let x := 5 / 0` has ended in OP_DIVIDE
C12_Divided ==
  /\ mode = "run"
  /\ source = SrcDivZero
  /\ phase = "exit"
  /\ steps > 0
  /\ vm.code[vm.ip + 1] = OP_DIVIDE

\* C13: OP_EQUAL on two string values compares the payload pointers: a
\* string-valued local compared with itself is equal and true is pushed, so
\* the program  let s := "a"  io.println s == s  prints true.
C13_StringEqualByIdentity ==
  (mode = "run" /\ source = SrcStringSelf /\ phase = "exit")
    => /\ exit_code = 0
       /\ out = <<"t", "r", "u", "e", "\n">>

\* the values the language calls falsy
Falsy == {value_make_nil, value_make_bool(FALSE)}

\* C14: OP_NOT and OP_JUMP_IF_FALSE use one truthiness.  OP_NOT replaces the
\* top value by true exactly when it is nil or false; OP_JUMP_IF_FALSE adds
\* its offset to the cursor exactly when the top value is nil or false and
\* leaves the stack alone; int 0, float 0.0, the empty string and a native
\* function are truthy.  In the chunk that applies both to the same value,
\* the jump is taken exactly when OP_NOT pushed true.
C14_OneTruthiness ==
  /\ [][(About(OP_NOT) /\ Len(vm.stack) >= 1 /\ steps' # steps)
         => /\ phase' = "running"
            /\ vm'.ip = vm.ip + 1
            /\ vm'.stack
                 = Append(Popped(1), value_make_bool(Top(0) \in Falsy))]_vars
  /\ [][(About(OP_JUMP_IF_FALSE) /\ Len(vm.stack) >= 1 /\ steps' # steps)
         => /\ phase' = "running"
            /\ vm'.stack = vm.stack
            /\ vm'.ip = IF Top(0) \in Falsy THEN vm.ip + 3 + ReadShort
                        ELSE vm.ip + 3]_vars
  /\ [](\A v \in Samples :
          (mode = "bytecode" /\ vm.code = TruthChunk(v).code
           /\ vm.constants = TruthChunk(v).constants /\ phase = "exit")
            => /\ exit_code = 0
               /\ vm.stack[1] = value_make_bool(v \in Falsy)
               /\ (vm.ip = 9) = (vm.stack[1] = value_make_bool(TRUE))
               /\ (vm.ip = 8) = (vm.stack[1] = value_make_bool(FALSE)))

\* the zero int went through OP_NOT and OP_JUMP_IF_FALSE as a truthy value
C14_ZeroIsTruthy ==
  /\ mode = "bytecode"
  /\ vm.code = TruthChunk(value_make_int(0)).code
  /\ vm.constants = TruthChunk(value_make_int(0)).constants
  /\ phase = "exit"
  /\ vm.ip = 8
  /\ vm.stack = <<value_make_bool(FALSE), value_make_int(0)>>

\* the names a `let` has introduced so far and whether an identifier was
\* read or assigned before any `let` of its name
Declared(st, name) == [st EXCEPT !.names = @ \cup {name}]
Used(st, name) == [st EXCEPT !.undefined = @ \/ name \notin st.names]

RECURSIVE Walk(_, _), WalkList(_, _, _)

\* the statements from index i on, in source order, up to the first
\* undefined use
WalkList(nodes, i, st) ==
  IF st.undefined \/ i > Len(nodes) THEN st
  ELSE WalkList(nodes, i + 1, Walk(nodes[i], st))

\* the program text in source order (a let's value comes before its name)
Walk(node, st) ==
  CASE node.type \in {"AST_PROGRAM", "AST_BLOCK"} ->
         WalkList(node.statements, 1, st)
    [] node.type = "AST_LET" -> Declared(Walk(node.value, st), node.name)
    [] node.type = "AST_ASSIGNMENT" -> Used(Walk(node.value, st), node.name)
    [] node.type = "AST_IDENTIFIER" -> Used(st, node.name)
    [] node.type = "AST_BINARY_OP" -> Walk(node.right, Walk(node.left, st))
    [] node.type = "AST_UNARY_OP" -> Walk(node.operand, st)
    [] node.type = "AST_IF" ->
         Walk(node.else_branch,
              Walk(node.then_branch, Walk(node.condition, st)))
    [] node.type = "AST_WHILE" -> Walk(node.body, Walk(node.condition, st))
    [] node.type = "AST_LOOP" -> Walk(node.body, st)
    [] node.type = "AST_CALL" -> WalkList(node.args, 1, st)
    [] OTHER -> st

UndefinedUse(ast) == Walk(ast, [names |-> {}, undefined |-> FALSE]).undefined

\* C15: a program that reads or assigns an identifier no earlier `let`
\* introduced is rejected by codegen_compile with `Undefined variable`
\* (`Undefined variable in assignment` for an assignment): the process exits
\* with status 1 and the VM never runs, so no opcode of the program executes
\* and nothing is printed.
C15_UndefinedVariableRejected ==
  (mode \in {"run", "codegen"} /\ UndefinedUse(program))
    => /\ phase \in {"compile", "exit"}
       /\ steps = 0
       /\ out = <<>>
       /\ phase = "exit"
            => /\ exit_code = 1
               /\ diag \in {"Undefined variable",
                             "Undefined variable in assignment"}

\* the program  io.println "n"  y  was rejected for its last statement
C15_Rejected ==
  /\ mode = "run"
  /\ source = SrcPrintThenUndefined
  /\ UndefinedUse(program)
  /\ phase = "exit"
  /\ diag = "Undefined variable"

\* sources with an error token (a stray character, an unterminated string)
\* or a missing token (`:=`, `then`, a module name, a member name, an
\* expression)
ParseErrorSources ==
  {SrcAt, SrcUnterminated, SrcPrintThenAt, SrcLetNoAssign, SrcIfNoThen,
   SrcWhileNoThen, SrcImportNoName, SrcDotNoName, SrcNoExpression}

\* C16: whenever the scanner yields an error token or the parser misses an
\* expected token, parser_parse returns no program: nothing is compiled or
\* executed and the process exits with a nonzero status.
C16_ParseErrorDiscardsProgram ==
  (mode = "run" /\ source \in ParseErrorSources /\ phase # "parse")
    => /\ phase = "exit"
       /\ program = NULL_NODE
       /\ exit_code # 0
       /\ steps = 0
       /\ out = <<>>

\* the string operand of the instruction at the cursor (READ_STRING)
Operand == vm.constants[ReadByte + 1].v

\* C17: OP_IMPORT of a name that is not in the built-in module registry is
\* fatal.  The step ends the run with an error status and a diagnostic,
\* leaves loaded-modules and globals (the whole VM) unchanged, runs no
\* initializer and prints nothing; no step follows it, so in
\* import io / import nope / io.println "n" nothing is printed.
C17_UnknownImportFatal ==
  /\ [][(About(OP_IMPORT) /\ Operand \notin ModuleNames /\ steps' # steps)
         => /\ phase' = "exit"
            /\ exit_code' = 1
            /\ diag' = "Failed to load module"
            /\ vm' = vm
            /\ init_calls' = init_calls
            /\ out' = out]_vars
  /\ [][phase = "exit" => steps' = steps]_vars
  /\ [](mode = "run" /\ source \in {SrcUnknownModule, SrcImportThenNope}
         /\ phase = "exit"
           => /\ exit_code = 1
              /\ diag = "Failed to load module"
              /\ out = <<>>
              /\ vm.code[vm.ip + 1] = OP_IMPORT
              /\ ~table_get(vm.loaded_modules, ModuleNope).found)

\* import io / import nope / io.println "n" stopped at its second import
C17_StoppedAtImport ==
  /\ mode = "run"
  /\ source = SrcImportThenNope
  /\ phase = "exit"
  /\ steps = 2
  /\ init_calls[<<"i", "o">>] = 1

\* the module part of a qualified name m.f
ModuleOf(name) ==
  IF \E i \in 1..Len(name) : name[i] = "."
  THEN SubSeq(name, 1,
              (CHOOSE i \in 1..Len(name) :
                 name[i] = "." /\ \A j \in 1..(i - 1) : name[j] # ".") - 1)
  ELSE name

\* an OP_IMPORT of module m has succeeded
Imported(m) ==
  /\ m \in ModuleNames
  /\ init_calls[m] >= 1
  /\ table_get(vm.loaded_modules, m).found

\* C18: modules are loaded lazily and a call needs its import first.  An
\* OP_GET_GLOBAL of m.f that pushes a value is preceded by a successful
\* OP_IMPORT of m; executed before that import it halts the run with
\* `Undefined global` although the program compiled: io.println "x" without
\* an import, or with the import after it, compiles, executes one opcode and
\* exits with status 1 having printed nothing.
C18_GetGlobalNeedsImport ==
  /\ [][(About(OP_GET_GLOBAL) /\ steps' # steps
          /\ ~Imported(ModuleOf(Operand)))
         => /\ phase' = "exit"
            /\ exit_code' = 1
            /\ diag' = "Undefined global"
            /\ vm' = vm
            /\ out' = out]_vars
  /\ [][(About(OP_GET_GLOBAL) /\ steps' # steps /\ phase' = "running")
         => /\ Imported(ModuleOf(Operand))
            /\ Len(vm'.stack) = Len(vm.stack) + 1]_vars
  /\ [](mode = "run" /\ source \in {SrcNoImport, SrcLateImport}
         /\ phase = "exit"
           => /\ steps = 1
              /\ exit_code = 1
              /\ diag = "Undefined global"
              /\ out = <<>>)

\* io.println "n" / import io was compiled and stopped at its first opcode
C18_StoppedBeforeImport ==
  /\ mode = "run"
  /\ source = SrcLateImport
  /\ phase = "exit"
  /\ steps = 1
  /\ vm.code[vm.ip + 1] = OP_GET_GLOBAL
  /\ init_calls[<<"i", "o">>] = 0

\* the keys a table holds
TableKeys(table) ==
  {table.entries[i].key : i \in 1..Len(table.entries)} \ {NoKey}

\* the qualified names a module exports, with the native each is bound to
Exports(m) ==
  IF m = <<"i", "o">>
  THEN {[name |-> <<"i", "o", ".", "p", "r", "i", "n", "t", "l", "n">>,
         fn |-> "native_io_println"],
        [name |-> <<"i", "o", ".", "p", "r", "i", "n", "t">>,
         fn |-> "native_io_print"]}
  ELSE IF m = <<"s", "t", "r", "i", "n", "g">>
  THEN {[name |-> <<"s", "t", "r", "i", "n", "g", ".", "t", "o", "_", "u", "p",
                    "p", "e", "r">>,
         fn |-> "native_string_to_upper"],
        [name |-> <<"s", "t", "r", "i", "n", "g", ".", "t", "o", "_", "l", "o",
                    "w", "e", "r">>,
         fn |-> "native_string_to_lower"]}
  ELSE {}

ExportsOf(modules) == UNION {Exports(m) : m \in modules}

\* C19: at every opcode boundary (and between the module_load calls of an
\* embedding program) globals holds exactly the qualified names exported by
\* the modules in loaded-modules, each bound to its native function: io
\* binds io.println and io.print, string binds string.to_upper and
\* string.to_lower, and loading one module binds no name of the other.
C19_GlobalsAreLoadedExports ==
  /\ TableKeys(vm.loaded_modules) \subseteq ModuleNames
  /\ TableKeys(vm.globals)
       = {e.name : e \in ExportsOf(TableKeys(vm.loaded_modules))}
  /\ vm.globals.count = Cardinality(TableKeys(vm.globals))
  /\ \A e \in ExportsOf(TableKeys(vm.loaded_modules)) :
       table_get(vm.globals, e.name)
         = [found |-> TRUE, value |-> value_make_native_fn(e.fn)]
  /\ \A m \in ModuleNames :
       table_get(vm.loaded_modules, m).found = (init_calls[m] >= 1)

\* only the string module is loaded, after a failed load of nope
C19_OnlyString ==
  /\ TableKeys(vm.loaded_modules) = {<<"s", "t", "r", "i", "n", "g">>}
  /\ vm.globals.count = 2
  /\ ModuleNope \in DOMAIN load_calls

\* the n values above the callee, arg1 first
Arguments(n) == SubSeq(vm.stack, Len(vm.stack) - n + 1, Len(vm.stack))

\* the step invoked native fn once on args: its output was written and its
\* result replaced the callee and the arguments
Invoked(fn, args) ==
  /\ phase' = "running"
  /\ out' = out \o CallNative(fn, args).out
  /\ vm'.stack
       = Append(Popped(Len(args) + 1), CallNative(fn, args).result)
  /\ vm'.ip = vm.ip + 2

\* print "{}s", 7: the format is arg1 and 7 is arg2
FormatChunk ==
  CallChunk(<<value_make_int(7)>>, value_make_native_fn("native_io_println"),
            <<value_make_string(<<"{", "}", "s">>), value_make_int(7)>>)

\* C20: OP_CALL_NATIVE n on a stack [..., callee, arg1, ..., argn].  If the
\* value at depth n is not a native function the run halts with an error and
\* nothing is called; otherwise the native is invoked once with count n and
\* the arguments in the order arg1..argn, and afterwards the stack is the
\* prior stack with those n + 1 entries replaced by the returned value, the
\* entries below the callee unchanged.
C20_CallNativeFrame ==
  /\ [][(About(OP_CALL_NATIVE) /\ Len(vm.stack) >= ReadByte + 1
          /\ steps' # steps)
         => IF IS_NATIVE_FN(Top(ReadByte))
            THEN Invoked(Top(ReadByte).v, Arguments(ReadByte))
            ELSE /\ phase' = "exit"
                 /\ exit_code' = 1
                 /\ diag' = "Can only call native functions"
                 /\ vm' = vm
                 /\ out' = out]_vars
  /\ [](mode = "bytecode" /\ vm.code = FormatChunk.code
         /\ vm.constants = FormatChunk.constants /\ phase = "exit"
           => /\ exit_code = 0
              /\ out = <<"7", "s", "\n">>
              /\ vm.stack = <<value_make_int(7), value_make_nil>>)

\* io.println was called with the format "{}s" and the argument 7
C20_Called ==
  /\ mode = "bytecode"
  /\ vm.code = FormatChunk.code
  /\ vm.constants = FormatChunk.constants
  /\ phase = "exit"
  /\ out = <<"7", "s", "\n">>

-----------------------------------------------------------------------------
(* Claims about the compiled chunk *)

\* the operand bytes vm_run reads after an opcode (READ_BYTE, READ_SHORT)
OperandBytes(op) ==
  IF op \in {OP_JUMP, OP_JUMP_IF_FALSE, OP_LOOP} THEN 2
  ELSE IF op \in {OP_CONSTANT, OP_GET_LOCAL, OP_SET_LOCAL, OP_GET_GLOBAL,
                  OP_CALL_NATIVE, OP_IMPORT} THEN 1
  ELSE 0

\* the address of the instruction after the one at address a
NextInstruction(code, a) == a + 1 + OperandBytes(code[a + 1])

\* the address n instructions after address a (or the first one past the end)
RECURSIVE Skip(_, _, _)
Skip(code, a, n) ==
  IF n = 0 \/ a >= Len(code) THEN a
  ELSE Skip(code, NextInstruction(code, a), n - 1)

\* the addresses of the next n instructions of code from address a on
RECURSIVE Run(_, _, _)
Run(code, a, n) ==
  IF n = 0 \/ a >= Len(code) THEN {}
  ELSE {a} \cup Run(code, NextInstruction(code, a), n - 1)

\* the addresses of the instructions of code from address a on, decoded
\* 16 instructions at a time
RECURSIVE InstructionStarts(_, _)
InstructionStarts(code, a) ==
  IF a >= Len(code) THEN {}
  ELSE Run(code, a, 16) \cup InstructionStarts(code, Skip(code, a, 16))

Jumps == {OP_JUMP, OP_JUMP_IF_FALSE, OP_LOOP}

\* the address vm_run moves the cursor to from the jump at address a
JumpTarget(code, a) ==
  IF code[a + 1] = OP_LOOP
  THEN a + 3 - (code[a + 2] * 256 + code[a + 3])
  ELSE a + 3 + (code[a + 2] * 256 + code[a + 3])

TargetsAreInstructions(code, starts) ==
  \A a \in starts :
    code[a + 1] \in Jumps
      => /\ a + 3 <= Len(code)
         /\ JumpTarget(code, a) \in starts

\* C21: in every chunk a successful compile produced, every OP_JUMP,
\* OP_JUMP_IF_FALSE and OP_LOOP carries its patched 16-bit big-endian
\* distance, and the address the VM computes from it (the cursor after the
\* operand plus the distance, minus for OP_LOOP) is the first byte of an
\* instruction inside the chunk.
C21_JumpTargetsValid ==
  (mode \in {"run", "codegen"} /\ phase \in {"running", "exit"} /\ Len(vm.code) > 0)
    => TargetsAreInstructions(vm.code, InstructionStarts(vm.code, 0))

\* a while inside the else branch of an if ran to its end
C21_NestedRan ==
  /\ mode = "codegen"
  /\ program = ast_make_program(
       <<ImportIo,
         ast_make_if(NestFalse, PrintCall("T"),
                     ast_make_while(NestFalse, PrintCall("b"))),
         PrintCall("A")>>)
  /\ phase = "exit"
  /\ exit_code = 0
  /\ out = <<"A">>

\* the distance the pending patch_jump computes, and the offset the pending
\* emit_loop computes after writing OP_LOOP
ForwardDistance == Len(compiler.code) - call.offset - 2
BackwardOffset == Len(compiler.code) + 1 - call.offset + 2

\* the big-endian short at 0-based address a of code
ShortAt(code, a) == code[a + 1] * 256 + code[a + 2]

\* C22: patch_jump accepts a forward distance of exactly 65,535 bytes and
\* fails the compile at 65,536 with `Too much code to jump over`; emit_loop
\* accepts a backward offset of exactly 65,535 and fails the compile at
\* 65,536 with `Loop body too large`; an accepted distance is stored in the
\* two operand bytes without truncation (and nothing else is touched).
C22_JumpRangeBoundary ==
  /\ [][(mode = "jump" /\ call.fn = "patch_jump" /\ phase' = "done"
          /\ phase = "call")
         => IF ForwardDistance <= 65535
            THEN /\ ~compiler'.had_error
                 /\ Len(compiler'.code) = Len(compiler.code)
                 /\ ShortAt(compiler'.code, call.offset) = ForwardDistance
                 /\ \A i \in 1..(call.offset + 4) \cup
                             {Len(compiler.code) - 2, Len(compiler.code)} :
                       i \in {call.offset + 1, call.offset + 2}
                         \/ compiler'.code[i] = compiler.code[i]
            ELSE /\ compiler'.had_error
                 /\ compiler'.message = "Too much code to jump over"]_vars
  /\ [][(mode = "jump" /\ call.fn = "emit_loop" /\ phase' = "done"
          /\ phase = "call")
         => IF BackwardOffset <= 65535
            THEN /\ ~compiler'.had_error
                 /\ Len(compiler'.code) = Len(compiler.code) + 3
                 /\ compiler'.code[Len(compiler.code) + 1] = OP_LOOP
                 /\ ShortAt(compiler'.code, Len(compiler.code) + 1)
                      = BackwardOffset
            ELSE /\ compiler'.had_error
                 /\ compiler'.message = "Loop body too large"]_vars
  /\ [](mode = "jump" /\ phase = "done" /\ call.fn = "patch_jump"
         => (compiler.had_error
               <=> Len(compiler.code) - call.offset - 2 >= 65536))
  /\ [](mode = "jump" /\ phase = "done" /\ call.fn = "emit_loop"
         /\ ~compiler.had_error
         => Len(compiler.code) - call.offset <= 65535)

\* a loop whose backward offset is exactly 65,535 was emitted
C22_LargestLoop ==
  /\ mode = "jump"
  /\ phase = "done"
  /\ call.fn = "emit_loop"
  /\ ~compiler.had_error
  /\ Len(compiler.code) - call.offset = 65535
  /\ ShortAt(compiler.code, Len(compiler.code) - 2) = 65535

-----------------------------------------------------------------------------
(* Claims about the hash table *)

\* the step is the call fn of table.c
Calls(fn) == mode = "table" /\ steps' # steps /\ call'.fn = fn

\* C24: table_set is idempotent on the value.  In any table state reached
\* by table_set / table_delete calls, table_set(k, v) on a key for which
\* table_get(k) succeeds returns false, leaves count unchanged and makes
\* table_get(k) return v; repeating the same table_set changes nothing
\* further.
C24_SetExistingKey ==
  [][(Calls("table_set") /\ table_get(tab, call'.key).found)
       => /\ call'.result = FALSE
          /\ tab'.count = tab.count
          /\ table_get(tab', call'.key)
               = [found |-> TRUE, value |-> call'.value]
          /\ table_set(tab', call'.key, call'.value) = tab'
          /\ ~is_new_key(tab', call'.key)]_vars

\* C25: in any table state reached by table_set / table_delete calls, a
\* successful table_delete(k) decrements count by one and makes the next
\* table_get(k) return not-found; a following table_set(k, v) is a new
\* entry (it returns true and count increases by one) and table_get(k)
\* then returns v.
C25_DeleteThenReinsert ==
  [][(Calls("table_delete") /\ call'.result)
       => /\ tab'.count = tab.count - 1
          /\ ~table_get(tab', call'.key).found
          /\ is_new_key(tab', call'.key)
          /\ \A v \in Vals :
               /\ table_set(tab', call'.key, v).count = tab'.count + 1
               /\ table_get(table_set(tab', call'.key, v), call'.key)
                    = [found |-> TRUE, value |-> v]]_vars

\* a key was deleted from a table that holds a second entry with that key
C25_DeletedOneOfTwo ==
  /\ mode = "table"
  /\ call.fn = "table_delete"
  /\ call.result
  /\ \E i \in 1..Len(tab.entries) : tab.entries[i].key = call.key

-----------------------------------------------------------------------------
(* Claims about the constant pool *)

RECURSIVE PoolEntries(_), PoolEntriesOf(_, _)

\* the literals, import names and call-site names of the statements from
\* index i on
PoolEntriesOf(nodes, i) ==
  IF i > Len(nodes) THEN 0
  ELSE PoolEntries(nodes[i]) + PoolEntriesOf(nodes, i + 1)

\* the literals, import names and call-site names in the program text
PoolEntries(node) ==
  CASE node.type \in {"AST_PROGRAM", "AST_BLOCK"} ->
         PoolEntriesOf(node.statements, 1)
    [] node.type \in {"AST_STRING_LITERAL", "AST_INT_LITERAL",
                      "AST_FLOAT_LITERAL", "AST_IMPORT"} -> 1
    [] node.type = "AST_CALL" -> 1 + PoolEntriesOf(node.args, 1)
    [] node.type \in {"AST_LET", "AST_ASSIGNMENT"} -> PoolEntries(node.value)
    [] node.type = "AST_BINARY_OP" ->
         PoolEntries(node.left) + PoolEntries(node.right)
    [] node.type = "AST_UNARY_OP" -> PoolEntries(node.operand)
    [] node.type = "AST_IF" ->
         PoolEntries(node.condition) + PoolEntries(node.then_branch)
           + PoolEntries(node.else_branch)
    [] node.type = "AST_WHILE" ->
         PoolEntries(node.condition) + PoolEntries(node.body)
    [] node.type = "AST_LOOP" -> PoolEntries(node.body)
    [] OTHER -> 0

\* the opcodes whose operand is a constant index
PoolOpcodes == {OP_CONSTANT, OP_GET_GLOBAL, OP_IMPORT}

IndicesValid(code, constants, starts) ==
  \A a \in starts :
    code[a + 1] \in PoolOpcodes
      => /\ code[a + 2] <= 255
         /\ code[a + 2] < Len(constants)

\* C23: every literal, import name and call-site name appends one pool
\* entry (no de-duplication); a program that appends exactly 256 entries
\* compiles, a 257th makes the compile fail with `Too many constants in one
\* chunk`, and in every successfully compiled chunk each constant-index
\* operand is <= 255 and smaller than the pool size.
C23_ConstantPoolBoundary ==
  /\ (mode \in {"run", "codegen"} /\ phase \in {"running", "exit"}
      /\ Len(vm.code) > 0)
       => /\ Len(vm.constants) = PoolEntries(program)
          /\ Len(vm.constants) <= 256
          /\ IndicesValid(vm.code, vm.constants,
                          InstructionStarts(vm.code, 0))
  /\ (mode = "codegen" /\ program \in LiteralPrograms /\ phase # "compile")
       => IF PoolEntries(program) <= 256
          THEN phase = "running" /\ Len(vm.code) > 0
          ELSE /\ phase = "exit"
               /\ exit_code = 1
               /\ diag = "Too many constants in one chunk"
               /\ steps = 0
               /\ Len(vm.code) = 0

\* the program with exactly 256 pool entries compiled and is running
C23_FullPool ==
  /\ mode = "codegen"
  /\ program \in LiteralPrograms
  /\ phase = "running"
  /\ Len(vm.constants) = 256
  /\ steps > 0
-----------------------------------------------------------------------------
(* Claims about the io module *)

\* the positions where a `{}` pair of the format begins
PairStarts(format) ==
  {i \in 1..(Len(format) - 1) : format[i] = "{" /\ format[i + 1] = "}"}

\* what stands for position i of the format in the text written: the
\* rendering of argument k + 1 for the first character of the k-th pair,
\* nothing for its second character, the character itself elsewhere
Piece(format, args, i) ==
  IF i \in PairStarts(format)
  THEN value_print(args[Cardinality({j \in PairStarts(format) : j <= i}) + 1])
  ELSE IF (i - 1) \in PairStarts(format) THEN <<>>
  ELSE <<format[i]>>

RECURSIVE Interpolated(_, _, _)
Interpolated(format, args, i) ==
  IF i > Len(format) THEN <<>>
  ELSE Piece(format, args, i) \o Interpolated(format, args, i + 1)

\* the text the claim has io.print write for args
Written(args) ==
  IF Len(args) > 1 /\ IS_STRING(args[1])
  THEN Interpolated(args[1].v, args, 1)
  ELSE value_print(args[1])

\* the format has an argument for each of its pairs
Covered(args) ==
  (Len(args) > 1 /\ IS_STRING(args[1]))
    => Cardinality(PairStarts(args[1].v)) <= Len(args) - 1

-----------------------------------------------------------------------------
(* Claims about local variables *)

\* the declarations among the first k - 1 statements
LetsBefore(stmts, k) == {j \in 1..(k - 1) : stmts[j].type = "AST_LET"}

\* the slot the declaration at statement j owns: one per declaration, in
\* order
SlotOfLet(stmts, j) == Cardinality(LetsBefore(stmts, j))

\* the slot of the latest declaration of name before statement k
Binding(stmts, k, name) ==
  SlotOfLet(stmts,
    CHOOSE j \in LetsBefore(stmts, k) :
      /\ stmts[j].name = name
      /\ \A i \in LetsBefore(stmts, k) : stmts[i].name = name => i <= j)

\* the local-variable instructions of the value expression of statement k
ReadsOf(stmts, k, node) ==
  IF node.type = "AST_IDENTIFIER"
  THEN <<<<OP_GET_LOCAL, Binding(stmts, k, node.name)>>>>
  ELSE <<>>

\* the local-variable instructions statement k stands for
LocalOpsOf(stmts, k) ==
  CASE stmts[k].type = "AST_LET" ->
         Append(ReadsOf(stmts, k, stmts[k].value),
                <<OP_SET_LOCAL, SlotOfLet(stmts, k)>>)
    [] stmts[k].type = "AST_ASSIGNMENT" ->
         Append(ReadsOf(stmts, k, stmts[k].value),
                <<OP_SET_LOCAL, Binding(stmts, k, stmts[k].name)>>)
    [] OTHER -> ReadsOf(stmts, k, stmts[k])

RECURSIVE ExpectedLocalOps(_, _)
ExpectedLocalOps(stmts, k) ==
  IF k > Len(stmts) THEN <<>>
  ELSE LocalOpsOf(stmts, k) \o ExpectedLocalOps(stmts, k + 1)

\* the OP_GET_LOCAL / OP_SET_LOCAL instructions of code from address a on,
\* each with its operand
RECURSIVE LocalOps(_, _)
LocalOps(code, a) ==
  IF a >= Len(code) THEN <<>>
  ELSE (IF code[a + 1] \in {OP_GET_LOCAL, OP_SET_LOCAL}
        THEN <<<<code[a + 1], code[a + 2]>>>> ELSE <<>>)
         \o LocalOps(code, NextInstruction(code, a))

\* C27: a redeclaration shadows.  After `let x := e1` followed by
\* `let x := e2` the two declarations own distinct slots, every later read
\* or assignment of x resolves to the slot of the second declaration, and
\* the initializer e2 itself still resolves x to the first declaration.
C27_RedeclarationShadows ==
  (mode = "codegen" /\ program \in ShadowPrograms /\ phase # "compile")
    => /\ Len(vm.code) > 0
       /\ LocalOps(vm.code, 0) = ExpectedLocalOps(program.statements, 1)

\* let x := 1 / let x := x / x = 7 / x was compiled: the initializer reads
\* slot 0, the assignment writes slot 1 and the read reads slot 1
C27_Shadowed ==
  /\ mode = "codegen"
  /\ program = ast_make_program(
       <<ast_make_let(<<"x">>, ast_make_int_literal(1)),
         ast_make_let(<<"x">>, ast_make_identifier(<<"x">>)),
         ast_make_assignment(<<"x">>, ast_make_int_literal(7)),
         ast_make_identifier(<<"x">>)>>)
  /\ phase = "running"
  /\ LocalOps(vm.code, 0)
       = <<<<OP_SET_LOCAL, 0>>, <<OP_GET_LOCAL, 0>>, <<OP_SET_LOCAL, 1>>,
           <<OP_SET_LOCAL, 1>>, <<OP_GET_LOCAL, 1>>>>
-----------------------------------------------------------------------------
(* Claims about token slices *)

\* the source from offset from up to (not including) offset to
Between(from, to) == SubSeq(source, from + 1, to)

\* spaces, tabs and carriage returns, then possibly one comment running to
\* the end of the text
IsBlank(text) ==
  \E k \in 0..Len(text) :
    /\ \A i \in 1..k : text[i] \in {" ", "\t", "\r"}
    /\ \/ k = Len(text)
       \/ /\ k + 2 <= Len(text)
          /\ text[k + 1] = "/"
          /\ text[k + 2] = "/"
          /\ \A i \in 1..Len(text) : text[i] # "\n"

\* where the slice of token i ends (the start of the source for i = 0)
SliceEnd(i) == IF i = 0 THEN 0 ELSE tokens[i].start + tokens[i].length

\* C28: for every source text, the slices of the tokens returned by
\* successive lexer_next_token calls are non-overlapping and in increasing
\* source order, and the text between consecutive slices consists only of
\* spaces, tabs, carriage returns and `//` comments, so concatenating the
\* slices recovers the source up to whitespace and comments.
C28_SlicesCoverSource ==
  mode = "scan" =>
    /\ \A i \in 1..Len(tokens) :
         /\ tokens[i].start >= SliceEnd(i - 1)
         /\ SliceEnd(i) <= Len(source)
         /\ IsBlank(Between(SliceEnd(i - 1), tokens[i].start))
    /\ phase = "done" => SliceEnd(Len(tokens)) = Len(source)
-----------------------------------------------------------------------------
(* Claims about operators *)

\* the token kind lexer.h gives a two-character spelling
KindOf(op) ==
  CASE op = <<"=", "=">> -> "TOKEN_EQUAL_EQUAL"
    [] op = <<"!", "=">> -> "TOKEN_BANG_EQUAL"
    [] op = <<"<", "=">> -> "TOKEN_LESS_EQUAL"
    [] op = <<">", "=">> -> "TOKEN_GREATER_EQUAL"
    [] op = <<":", "=">> -> "TOKEN_COLON_EQUAL"
    [] op = <<".", ".">> -> "TOKEN_DOT_DOT"
    [] op = <<"+", "=">> -> "TOKEN_PLUS_EQUAL"
    [] op = <<"-", "=">> -> "TOKEN_MINUS_EQUAL"
    [] op = <<"*", "=">> -> "TOKEN_STAR_EQUAL"
    [] op = <<"/", "=">> -> "TOKEN_SLASH_EQUAL"
    [] op = <<"-", ">">> -> "TOKEN_ARROW"

\* the two source characters at the start of token t (fewer at the end of
\* the source)
Spelling(t) ==
  SubSeq(source, t.start + 1,
         IF t.start + 2 <= Len(source) THEN t.start + 2 ELSE Len(source))

\* the tokens that point into the source
SourceTokens == {i \in 1..Len(tokens) : tokens[i].type # "TOKEN_ERROR"}

\* C29: each of the two-character spellings ==, !=, <=, >=, :=, .., +=, -=,
\* *=, /= and -> is scanned, by one-character lookahead, as a single token
\* of its own kind rather than as two single-character tokens, while `/`
\* followed by `/` starts a comment and yields no operator token.
C29_TwoCharOperators ==
  mode = "scan" =>
    \A i \in SourceTokens :
      /\ Spelling(tokens[i]) \in TwoCharOperators
           => /\ tokens[i].length = 2
              /\ tokens[i].type = KindOf(Spelling(tokens[i]))
      /\ Spelling(tokens[i]) # <<"/", "/">>
-----------------------------------------------------------------------------
(* Claims about the end of the chunk *)

\* C30: for every program the compiler accepts, the last instruction of the
\* emitted chunk is OP_HALT, and a run that reaches it makes vm_run return
\* success.
C30_ChunkEndsWithHalt ==
  /\ []((mode \in {"run", "codegen"} /\ phase \in {"running", "exit"}
          /\ Len(vm.code) > 0)
         => /\ vm.code[Len(vm.code)] = OP_HALT
            /\ (Len(vm.code) - 1) \in InstructionStarts(vm.code, 0))
  /\ [][(AtOpcode(OP_HALT) /\ steps' # steps)
         => /\ phase' = "exit"
            /\ exit_code' = 0
            /\ diag' = diag
            /\ out' = out]_vars

\* a parsed program ran to the OP_HALT that ends its chunk
C30_Halted ==
  /\ mode = "run"
  /\ phase = "exit"
  /\ exit_code = 0
  /\ steps > 1
  /\ vm.ip = Len(vm.code) - 1
  /\ vm.code[vm.ip + 1] = OP_HALT

-----------------------------------------------------------------------------
(* Claims about the table as a map *)

\* the keys the calls of this model use
KnownKeys == Keys \cup {Script[i].key : i \in 1..Len(Script)}

\* the keys table_get finds
Present(table) == {k \in KnownKeys : table_get(table, k).found}

\* C31: the string table behaves as a map under every interleaving of
\* table_set and table_delete calls (colliding keys and growth included):
\* a call changes what table_get answers for its own key only (the value
\* set, or not-found after a delete), count equals the number of distinct
\* keys present, and deleting one key never hides or duplicates another.
C31_TableIsMap ==
  [][(Calls("table_set") \/ Calls("table_delete"))
       => /\ \A k \in KnownKeys \ {call'.key} :
               table_get(tab', k) = table_get(tab, k)
          /\ table_get(tab', call'.key)
               = IF call'.fn = "table_set"
                 THEN [found |-> TRUE, value |-> call'.value]
                 ELSE [found |-> FALSE, value |-> value_make_nil]
          /\ tab'.count = Cardinality(Present(tab'))]_vars

-----------------------------------------------------------------------------
(* Claims about the value stack *)

\* the opcodes that pop two operands
TwoOperandOpcodes ==
  {OP_ADD, OP_SUBTRACT, OP_MULTIPLY, OP_DIVIDE, OP_MODULO, OP_EQUAL,
   OP_NOT_EQUAL, OP_LESS, OP_LESS_EQUAL, OP_GREATER, OP_GREATER_EQUAL}

\* the opcodes whose handler ends with a push onto a stack it did not pop
PushingOpcodes == {OP_CONSTANT, OP_GET_LOCAL, OP_GET_GLOBAL}

\* the number of stack values the instruction at the cursor reads
Needed ==
  CASE vm.code[vm.ip + 1] \in TwoOperandOpcodes -> 2
    [] vm.code[vm.ip + 1] \in {OP_POP, OP_SET_LOCAL, OP_NEGATE, OP_NOT,
                               OP_JUMP_IF_FALSE} -> 1
    [] vm.code[vm.ip + 1] = OP_CALL_NATIVE -> ReadByte + 1
    [] OTHER -> 0

\* vm_run is about to dispatch an instruction
AboutToStep ==
  /\ phase = "running"
  /\ vm.ip < Len(vm.code)
  /\ steps' # steps

\* C32: in every reachable VM state 0 <= stack_top <= 256 and no opcode
\* reads or writes the value stack outside stack[0 .. stack_top): a push
\* onto a full stack halts with `Stack overflow`, and any opcode needing
\* more values than the stack holds (OP_POP, binary operators,
\* OP_JUMP_IF_FALSE's peek, OP_CALL_NATIVE's callee peek and its pop of
\* n + 1 entries) halts with an error instead of underflowing.
C32_StackBounds ==
  /\ [](Len(vm.stack) <= SATORI_STACK_MAX)
  /\ [][(AboutToStep /\ Len(vm.stack) < Needed)
         => /\ phase' = "exit"
            /\ exit_code' = 1
            /\ vm' = vm
            /\ out' = out]_vars
  /\ [][(AboutToStep /\ vm.code[vm.ip + 1] \in PushingOpcodes
          /\ Len(vm.stack) = SATORI_STACK_MAX)
         => /\ phase' = "exit"
            /\ exit_code' = 1
            /\ diag' = "Stack overflow"]_vars

-----------------------------------------------------------------------------
(* Claims about the termination of the parser *)

\* C33: parser_parse terminates on every finite token stream, returning
\* either a program or no program after reporting a syntax error; a `(` (or
\* any token that cannot start a primary) met where an expression or call
\* argument is expected is reported as a syntax error rather than being
\* re-examined without consuming input.
C33_ParserTerminates ==
  (mode = "ast" /\ phase # "parse")
    => /\ phase = "exit"
       /\ program = NULL_NODE => diag = "parse error"

-----------------------------------------------------------------------------
(* Claims about the condition value *)

\* the cursor stands behind the code of the first n statements of the
\* program
Behind(n) ==
  /\ phase = "running"
  /\ vm.ip = AddressAfter(SubSeq(program.statements, 1, n))

\* C34: OP_JUMP_IF_FALSE never pops: it leaves the stack unchanged whether
\* or not it jumps, and in the code compiled for an `if` or a `while`
\* exactly one OP_POP removing that condition executes on each path, so the
\* depth after the statement equals the depth before its condition was
\* pushed.
C34_ConditionPoppedOnce ==
  /\ [][(About(OP_JUMP_IF_FALSE) /\ steps' # steps)
         => vm'.stack = vm.stack]_vars
  /\ [](\A prefix \in IfPrefixes, cond \in IfConds, has_else \in BOOLEAN :
          (mode = "run" /\ source = IfText(prefix, cond, has_else)
             /\ Behind(Len(program.statements) - 1))
            => Len(vm.stack) = (IF prefix = <<>> THEN 0 ELSE 1))
  /\ [](\A w \in WhileCases :
          (mode = "codegen" /\ program = WhileProgram(w.before, w.cond, w.body)
             /\ Behind(Len(program.statements) - 1))
            => Len(vm.stack) = (IF w.before = CallStart THEN 1 ELSE 0))

-----------------------------------------------------------------------------
(* Claims about the order of the operands *)

\* the opcode of an operator tag, as the switch of AST_BINARY_OP lists them
Matching(op) ==
  CASE op = "BIN_SUB" -> OP_SUBTRACT
    [] op = "BIN_DIV" -> OP_DIVIDE
    [] op = "BIN_MOD" -> OP_MODULO
    [] op = "BIN_LT" -> OP_LESS
    [] op = "BIN_LTE" -> OP_LESS_EQUAL
    [] op = "BIN_GT" -> OP_GREATER
    [] op = "BIN_GTE" -> OP_GREATER_EQUAL

RECURSIVE LiteralsOf(_), CodeOf(_, _), IntOf(_)

\* the integer literals of an expression, left to right
LiteralsOf(node) ==
  IF node.type = "AST_INT_LITERAL" THEN <<node.value>>
  ELSE LiteralsOf(node.left) \o LiteralsOf(node.right)

\* left's code, right's code, the opcode; the literals take the pool
\* entries from k on
CodeOf(node, k) ==
  IF node.type = "AST_INT_LITERAL" THEN <<OP_CONSTANT, k>>
  ELSE CodeOf(node.left, k)
         \o CodeOf(node.right, k + Len(LiteralsOf(node.left)))
         \o <<Matching(node.op)>>

\* the integer an operand stands for
IntOf(node) ==
  IF node.type = "AST_INT_LITERAL" THEN node.value
  ELSE IntOf(node.left) - IntOf(node.right)

\* a op b on integers: the remainder has the sign of a, the quotient is the
\* fraction a / b
Applied(op, a, b) ==
  CASE op = "BIN_SUB" -> {value_make_int(a - b)}
    [] op = "BIN_DIV" ->
         {x \in {value_make_float(Rat(n, d)) : n \in -7..7, d \in 1..7} :
            x.v.num * b = a * x.v.den}
    [] op = "BIN_MOD" ->
         {value_make_int(r) : r \in {r \in -Abs(b)..Abs(b) :
            /\ Abs(r) < Abs(b)
            /\ r * a >= 0
            /\ \E q \in -Abs(a)..Abs(a) : a = q * b + r}}
    [] op = "BIN_LT" -> {value_make_bool(a < b)}
    [] op = "BIN_LTE" -> {value_make_bool(a <= b)}
    [] op = "BIN_GT" -> {value_make_bool(a > b)}
    [] op = "BIN_GTE" -> {value_make_bool(a >= b)}

OrderRun == mode = "codegen" /\ program \in OrderPrograms

\* C35: operand order is preserved end to end: for binary_op(op, L, R) the
\* chunk is L's code, R's code, the opcode of op's tag, and the run leaves
\* a op b with a the value of L and b the value of R.
C35_OperandOrder ==
  OrderRun =>
    /\ phase \in {"running", "exit"} =>
         /\ vm.code = CodeOf(program.statements[1], 0) \o <<OP_HALT>>
         /\ [i \in 1..Len(vm.constants) |-> vm.constants[i].v]
              = LiteralsOf(program.statements[1])
    /\ phase = "exit" =>
         /\ exit_code = 0
         /\ Len(vm.stack) = 1
         /\ Applied(program.statements[1].op,
                    IntOf(program.statements[1].left),
                    IntOf(program.statements[1].right)) = {vm.stack[1]}

\* 7 - (2 - 7) ran to its end
C35_Subtracted ==
  /\ OrderRun
  /\ phase = "exit"
  /\ program.statements[1].op = "BIN_SUB"
  /\ program.statements[1].left = ast_make_int_literal(7)
  /\ program.statements[1].right.type = "AST_BINARY_OP"
  /\ vm.stack = <<value_make_int(12)>>

-----------------------------------------------------------------------------
(* Claims about the variable store *)

Compiled == mode \in {"run", "codegen"}

\* the slots the OP_SET_LOCAL instructions of code name
StoredSlots(code) ==
  {LocalOps(code, 0)[i][2] :
     i \in {j \in 1..Len(LocalOps(code, 0)) :
              LocalOps(code, 0)[j][1] = OP_SET_LOCAL}}

\* C36: in a compiled program a read yields the value the last executed let
\* or assignment of the same declaration stored: OP_GET_LOCAL s pushes what
\* the last OP_SET_LOCAL s stored, OP_SET_LOCAL s changes slot s alone and
\* pops one value, an assignment takes no new slot, and local_count never
\* decreases.
C36_VariableStore ==
  /\ [][(Compiled /\ About(OP_GET_LOCAL) /\ steps' # steps)
         => /\ ReadByte \in DOMAIN vm.locals
            /\ vm'.stack = Append(vm.stack, vm.locals[ReadByte])
            /\ vm'.locals = vm.locals]_vars
  /\ [][(About(OP_SET_LOCAL) /\ steps' # steps /\ Len(vm.stack) > 0)
         => /\ DOMAIN vm'.locals = DOMAIN vm.locals \cup {ReadByte}
            /\ vm'.locals[ReadByte] = vm.stack[Len(vm.stack)]
            /\ \A s \in DOMAIN vm.locals \ {ReadByte} :
                 vm'.locals[s] = vm.locals[s]
            /\ vm'.stack = SubSeq(vm.stack, 1, Len(vm.stack) - 1)]_vars
  /\ [][(phase = "running" /\ steps' # steps)
         => vm'.local_count >= vm.local_count]_vars
  /\ []((mode = "codegen" /\ program \in ShadowPrograms /\ phase # "compile")
         => StoredSlots(vm.code)
              = 0..(Cardinality(LetsBefore(program.statements,
                                           Len(program.statements) + 1)) - 1))

-----------------------------------------------------------------------------
(* Claims about the load of the table *)

EmptySlots(table) ==
  {i \in 1..Len(table.entries) : table.entries[i].key = NoKey}

\* C37: after every table_set count <= 0.75 * capacity, so at least one slot
\* is empty and the probe of find_entry ends for every key; a table_set
\* that grows the table (to 8, then doubling) keeps every binding that
\* was retrievable retrievable with its value.
C37_LoadFactor ==
  [][Calls("table_set")
       => /\ tab'.count * 4 <= tab'.capacity * 3
          /\ Len(tab'.entries) = tab'.capacity
          /\ EmptySlots(tab') # {}
          /\ tab'.capacity \in {tab.capacity,
                                IF tab.capacity < 8 THEN 8
                                ELSE 2 * tab.capacity}
          /\ tab'.capacity # tab.capacity
               => \A k \in KnownKeys \ {call'.key} :
                    table_get(tab, k).found
                      => table_get(tab', k) = table_get(tab, k)]_vars

-----------------------------------------------------------------------------
(* Claims about termination *)

RECURSIVE HasLoop(_)

\* the tree holds a while or a loop
HasLoop(node) ==
  CASE node.type \in {"AST_PROGRAM", "AST_BLOCK"} ->
         \E i \in 1..Len(node.statements) : HasLoop(node.statements[i])
    [] node.type = "AST_IF" ->
         HasLoop(node.then_branch) \/ HasLoop(node.else_branch)
    [] node.type \in {"AST_WHILE", "AST_LOOP"} -> TRUE
    [] OTHER -> FALSE

\* the cursor is on an OP_HALT
AtHalt == vm.ip < Len(vm.code) /\ vm.code[vm.ip + 1] = OP_HALT

\* the VM was started on the chunk of a program without while and loop
NoLoopRun ==
  /\ Compiled
  /\ phase \in {"running", "exit"}
  /\ Len(vm.code) > 0
  /\ ~HasLoop(program)

\* C38: every accepted program without while and loop terminates: the jumps
\* of its chunk all go forward, the cursor strictly increases from one
\* executed instruction to the next and stays inside the chunk, and the run
\* reaches OP_HALT or a fatal error.
C38_NoLoopTerminates ==
  /\ [](NoLoopRun
         => \A a \in InstructionStarts(vm.code, 0) :
              /\ vm.code[a + 1] # OP_LOOP
              /\ vm.code[a + 1] \in {OP_JUMP, OP_JUMP_IF_FALSE}
                   => /\ JumpTarget(vm.code, a) > a
                      /\ JumpTarget(vm.code, a) < Len(vm.code))
  /\ [][(NoLoopRun /\ phase = "running" /\ steps' # steps)
         => /\ vm.ip < Len(vm.code)
            /\ phase' = "running"
                 => vm'.ip > vm.ip /\ vm'.ip < Len(vm.code)]_vars
  /\ (NoLoopRun /\ phase = "running" /\ Len(vm.code) <= MaxSteps)
       ~> (phase = "exit" /\ (exit_code = 1 \/ AtHalt))

\* a program with an if and an else ran over the OP_JUMP that skips the
\* else branch to its OP_HALT
C38_JumpedToHalt ==
  /\ NoLoopRun
  /\ phase = "exit"
  /\ exit_code = 0
  /\ \E a \in InstructionStarts(vm.code, 0) :
       /\ vm.code[a + 1] = OP_JUMP
       /\ visits[a] > 0
       /\ JumpTarget(vm.code, a) > a + 4

-----------------------------------------------------------------------------
(* Claims about the allocation of slots *)

\* the addresses of the OP_SET_LOCAL instructions of code
StoreAddresses(code) ==
  {a \in InstructionStarts(code, 0) : code[a + 1] = OP_SET_LOCAL}

\* the k-th OP_SET_LOCAL of code (from 0, by address) names slot k
SlotsInOrder(code) ==
  \E stores \in {StoreAddresses(code)} :
    \A a \in stores : code[a + 2] = Cardinality({b \in stores : b < a})

\* the declarations of LetProgram(n)
LetCount(n) == 254 + n

\* C39: the k-th let compiled, wherever it is nested, receives slot k; a
\* program with 256 declarations compiles, and a 257th declaration fails the
\* compile with `Too many local variables` and no OP_SET_LOCAL of its own.
C39_SlotAllocation ==
  \A n \in 0..MaxLets :
    (mode = "codegen" /\ program = LetProgram(n) /\ phase # "compile")
      => IF LetCount(n) <= SATORI_MAX_LOCALS
         THEN /\ phase \in {"running", "exit"}
              /\ exit_code # 1
              /\ steps = 0
                   => /\ Cardinality(StoreAddresses(vm.code)) = LetCount(n)
                      /\ SlotsInOrder(vm.code)
         ELSE /\ phase = "exit"
              /\ exit_code = 1
              /\ diag = "Too many local variables"
              /\ \E c \in {compile_node(compiler_init, program)} :
                   /\ c.had_error
                   /\ Len(c.locals) = SATORI_MAX_LOCALS
                   /\ Cardinality(StoreAddresses(c.code)) = SATORI_MAX_LOCALS
                   /\ SlotsInOrder(c.code)

\* the compile of 257 declarations was refused
C39_Refused ==
  /\ mode = "codegen"
  /\ program = LetProgram(3)
  /\ phase = "exit"
  /\ diag = "Too many local variables"

====
